---- MODULE Spec2Model ----
(***************************************************************************)
(* A model of the msp432_razcal peripheral-access layer: the run-time pin  *)
(* and port allocator (PORT_PINS_AVAILABLE, Pin, Port, PinSet), the GPIO   *)
(* port-in-use token, the register writes of the GPIO pin and bus          *)
(* configurations, the conversions of pin names and the bit-band alias.    *)
(***************************************************************************)
EXTENDS Integers, Naturals, Sequences, FiniteSets, TLC

(***************************************************************************)
(* Bounds of the model.                                                    *)
(***************************************************************************)

\* The most tokens (Pin, Port, PinSet) alive at once; a PinSet being built
\* counts as one.
MaxTokens == 2

\* The most port-in-use tokens of port buses alive at once.
MaxBusTokens == 1

\* The most calls of get_mcu_pins in a run.
MaxCalls == 5

\* The most tries a call of retry_if is given.
MaxTries == 5

\* The most critical sections nested in one another, and the most statements
\* the closure of one executes.
MaxDepth == 3
MaxSteps == 3

(***************************************************************************)
(* 16-bit integer arithmetic, as the u16 operators of the source.          *)
(***************************************************************************)

U16 == 65536

RECURSIVE BitAnd(_, _)
BitAnd(a, b) ==
    IF a = 0 \/ b = 0 THEN 0
    ELSE (a % 2) * (b % 2) + 2 * BitAnd(a \div 2, b \div 2)

RECURSIVE BitOr(_, _)
BitOr(a, b) ==
    IF a = 0 THEN b
    ELSE IF b = 0 THEN a
    ELSE (IF a % 2 = 1 \/ b % 2 = 1 THEN 1 ELSE 0) + 2 * BitOr(a \div 2, b \div 2)

BitNot16(a) == (U16 - 1) - a

ShiftLeft16(x, n) == (x * 2 ^ (n % 16)) % U16

\* AtomicU16::fetch_nand stores !(old & val).
Nand16(old, val) == BitNot16(BitAnd(old, val))

Bit(mask, n) == (mask \div 2 ^ n) % 2

(***************************************************************************)
(* Pin names (src/src/pin.rs): a pin name is (port << 8) | pin.            *)
(***************************************************************************)

pin_name(port, pin) == BitOr(port * 256, pin)

extract_port_number(pin) == (pin \div 256) % 256

extract_pin_number(pin) == BitAnd(pin % U16, 255) % 256

PA_0 == pin_name(0, 0)
PA_8 == pin_name(0, 8)
PE_0 == pin_name(4, 0)

\* The pin names the model's callers pass.
PinInputs == {PA_0, PA_8, PE_0}

(***************************************************************************)
(* Port names (src/src/pin/names.rs).                                      *)
(***************************************************************************)

Port8Bit == "Port8Bit"
Port16Bit == "Port16Bit"

PORTA == [number |-> 0, size |-> Port16Bit]
PORTE == [number |-> 4, size |-> Port16Bit]
PORT1 == [number |-> PORTA.number * 2, size |-> Port8Bit]
PORT2 == [number |-> PORTA.number * 2 + 1, size |-> Port8Bit]

\* The port names the model's callers pass.
PortInputs == {PORTA, PORT2}

is_upper_half_port(port) ==
    IF port.size = Port8Bit THEN port.number % 2 # 0 ELSE FALSE

get_16_bit_port_index(port) ==
    IF port.size = Port8Bit THEN port.number \div 2 ELSE port.number

get_port_size(port) == port.size

NUM_PINS_IN_PORT == 16
HALF_PINS_IN_PORT == NUM_PINS_IN_PORT \div 2
ALL_PINS_IN_PORT == (2 ^ NUM_PINS_IN_PORT - 1) % U16
LOWER_PINS_IN_PORT == (2 ^ HALF_PINS_IN_PORT - 1) % U16
UPPER_PINS_IN_PORT == ALL_PINS_IN_PORT - LOWER_PINS_IN_PORT

\* The mask of the pins a port needs (the match in Port::new and Port::drop).
required_pins(port) ==
    IF get_port_size(port) = Port8Bit
    THEN IF is_upper_half_port(port) THEN UPPER_PINS_IN_PORT ELSE LOWER_PINS_IN_PORT
    ELSE ALL_PINS_IN_PORT

(***************************************************************************)
(* The package's table of available pins.                                  *)
(***************************************************************************)

Packages == {"vqfn", "nfbga", "lqfp"}

PORT_PINS_AVAILABLE(pkg) ==
    CASE pkg = "vqfn"  -> [p \in 0..5 |-> <<4095, 64767, 49407, 1023, 0, 63>>[p + 1]]
      [] pkg = "nfbga" -> [p \in 0..5 |-> <<65535, 65535, 65535, 1023, 0, 63>>[p + 1]]
      [] pkg = "lqfp"  -> [p \in 0..5 |-> <<65535, 65535, 65535, 65535, 65535, 63>>[p + 1]]


(***************************************************************************)
(* State.                                                                  *)
(***************************************************************************)

\* PinSet<COUNT>: the model's callers build PinSet2.
COUNT == 2

\* The pin arrays the model's callers pass to PinSet::new.
PinSetInputs == {<<PA_0, PA_8>>, <<PA_0, PA_0>>}

VARIABLES
    package,      \* the package the crate was built for
    irq_enabled,  \* whether interrupt handlers may preempt an operation
    avail,        \* PORT_PINS_AVAILABLE: one 16-bit mask per 16-bit port
    pins,         \* the number of live Pin tokens of each pin name
    ports,        \* the number of live Port tokens of each port name
    pinsets,      \* the number of live PinSet tokens of each pin array
    stack,        \* the operations in flight: the main thread's, then the one
                  \* of the interrupt handler that preempted it, which runs
    rel,          \* per pin: what happened since its only owner was dropped
    in_use_lock,  \* GPIO_PORT_IN_USE_LOCK: one in-use bit per 8-bit port
    tokens,       \* the number of live GpioPortInUseTokens of each free_mask
    config,       \* the configuration (the type parameter) of each GpioPin
    regs,         \* each GpioPin's bits of the port's registers
    tok,          \* per in-use mask: what happened since its token was dropped
    hw,           \* the registers of one GPIO port, 16 bits each
    dev,          \* the GPIO device on that port: a pin, a port bus, a section bus
    pending,      \* the register writes its running operation has still to do
    pin_arg,      \* the PinName a caller holds
    pin_prev,     \* the conversion of a PinName called before the last one
    pin_last,     \* the last conversion of a PinName called
    alias_prev,   \* the alias computation called before the last one
    alias_last,   \* the last alias computation called
    sel,          \* select_0 and select_1 of one GPIO port, 16 bits each
    sel_call,     \* the last constructor called on that port, and the select
                  \* registers when it was called
    sel_pending,  \* the stores a running gpio_port_bus_new has still to do
    MCU_PINSET,   \* the static holding the McuPinSet: "Some" or "None"
    mcu_stack,    \* the calls of get_mcu_pins in flight, the running one last
    mcu_results,  \* what the calls of get_mcu_pins returned, in order
    mask_call,     \* the section a caller holds and what its get_mask returned
    gpio_prev,    \* the gpio_pin_new called before the last one
    gpio_last,     \* the last gpio_pin_new called: its pin and the mask it gave
    port_prev,    \* the conversion of a PortName called before the last one
    port_last,     \* the last conversion of a PortName called
    enum_last,     \* the last conversion of an enum-typed PinName called
    WDT_A_IN_USE, \* whether the watchdog timer has been acquired
    wdt_timer,    \* whether a WatchdogTimer exists
    WDTCTL,       \* the watchdog control register
    wdt_last,      \* the last call on the watchdog timer
    retry,        \* the call of retry_if in progress, or the last one
    retry_invoked,\* how often that call has invoked the operation
    retry_other,   \* whether the operation has returned another result than retry_result
    PRIMASK,      \* whether the interrupts are masked (disabled)
    cs_stack,     \* the closures of critical sections running, outermost first
    isr_in_section\* whether the last interrupt taken came while a closure was running

allocvars == <<package, irq_enabled, avail, pins, ports, pinsets, stack, rel>>

gpiovars == <<in_use_lock, tokens, config, regs, tok>>

regvars == <<hw, dev, pending>>

namevars == <<pin_arg, pin_prev, pin_last>>

aliasvars == <<alias_prev, alias_last>>

selvars == <<sel, sel_call, sel_pending>>

mcuvars == <<MCU_PINSET, mcu_stack, mcu_results>>

maskvars == <<mask_call>>

inusevars == <<gpio_prev, gpio_last>>

portvars == <<port_prev, port_last>>

enumvars == <<enum_last>>

wdtvars == <<WDT_A_IN_USE, wdt_timer, WDTCTL, wdt_last>>

retryvars == <<retry, retry_invoked, retry_other>>

csvars == <<PRIMASK, cs_stack, isr_in_section>>

\* What the allocator's steps, the token's and the registers' leave alone.
notalloc ==
    <<gpiovars, regvars, namevars, aliasvars, selvars, mcuvars, maskvars,
      inusevars, portvars, enumvars, wdtvars, retryvars, csvars>>

notgpio ==
    <<allocvars, regvars, namevars, aliasvars, selvars, mcuvars, maskvars,
      inusevars, portvars, enumvars, wdtvars, retryvars, csvars>>

notreg ==
    <<allocvars, gpiovars, namevars, aliasvars, selvars, mcuvars, maskvars,
      inusevars, portvars, enumvars, wdtvars, retryvars, csvars>>

notname ==
    <<allocvars, gpiovars, regvars, aliasvars, selvars, mcuvars, maskvars,
      inusevars, portvars, enumvars, wdtvars, retryvars, csvars>>

notalias ==
    <<allocvars, gpiovars, regvars, namevars, selvars, mcuvars, maskvars,
      inusevars, portvars, enumvars, wdtvars, retryvars, csvars>>

notsel ==
    <<allocvars, gpiovars, regvars, namevars, aliasvars, mcuvars, maskvars,
      inusevars, portvars, enumvars, wdtvars, retryvars, csvars>>

notmcu ==
    <<allocvars, gpiovars, regvars, namevars, aliasvars, selvars, maskvars,
      inusevars, portvars, enumvars, wdtvars, retryvars, csvars>>

notmask ==
    <<allocvars, gpiovars, regvars, namevars, aliasvars, selvars, mcuvars,
      inusevars, portvars, enumvars, wdtvars, retryvars, csvars>>

notinuse ==
    <<allocvars, gpiovars, regvars, namevars, aliasvars, selvars, mcuvars,
      maskvars, portvars, enumvars, wdtvars, retryvars, csvars>>

notport ==
    <<allocvars, gpiovars, regvars, namevars, aliasvars, selvars, mcuvars,
      maskvars, inusevars, enumvars, wdtvars, retryvars, csvars>>

notenum ==
    <<allocvars, gpiovars, regvars, namevars, aliasvars, selvars, mcuvars,
      maskvars, inusevars, portvars, wdtvars, retryvars, csvars>>

notwdt ==
    <<allocvars, gpiovars, regvars, namevars, aliasvars, selvars, mcuvars,
      maskvars, inusevars, portvars, enumvars, retryvars, csvars>>

notretry ==
    <<allocvars, gpiovars, regvars, namevars, aliasvars, selvars, mcuvars,
      maskvars, inusevars, portvars, enumvars, wdtvars, csvars>>

notcs ==
    <<allocvars, gpiovars, regvars, namevars, aliasvars, selvars, mcuvars,
      maskvars, inusevars, portvars, enumvars, wdtvars, retryvars>>

vars ==
    <<allocvars, gpiovars, regvars, namevars, aliasvars, selvars, mcuvars,
      maskvars, inusevars, portvars, enumvars, wdtvars, retryvars,
      csvars>>

\* A frame of an operation in flight.
\*   op "Port::new":     between the fetch_and and the restoring fetch_or;
\*                       value keeps the bits of the local `value` that the
\*                       restore reads, those of the required mask
\*   op "PinSet::new":   in the allocation loop, the next index to allocate is i
\*   op "PinSet::undo":  in the release loop of a failed PinSet::new
\*   op "PinSet::drop":  dropping the pins of a live PinSet, one after another
\* pre is the table when the operation was called, recorded when nothing can
\* preempt the operation.
Frame(op, port, value, set, i, n) ==
    [op |-> op, port |-> port, value |-> value, pins |-> set, i |-> i, n |-> n,
     pre |-> IF irq_enabled THEN <<>> ELSE avail]

Top == stack[Len(stack)]

Pop == SubSeq(stack, 1, Len(stack) - 1)

\* A step that starts an operation or is a whole operation: taken by the
\* main thread when nothing is in flight, otherwise by an interrupt handler
\* preempting the main thread's operation.  There is one interrupt priority:
\* a handler runs to its end before anything else does.
MayStart == stack = <<>> \/ (irq_enabled /\ Pop = <<>>)

pin_mask(pin) == ShiftLeft16(1, extract_pin_number(pin))

\* Pin::new's atomic operation: the new mask of the pin's port.
Pin_new_store(old, pin) == Nand16(old, pin_mask(pin))

\* Pin::new's result: Some exactly when the pin's bit was set before.
Pin_new_some(old, pin) == BitAnd(old, pin_mask(pin)) # 0

\* A drop that forgets to give the pin back.
Pin_drop_forgets(old, pin) == old

\* Drop for Pin: the new mask of the pin's port.
Pin_drop_store(old, pin) == BitOr(old, pin_mask(pin))

\* Port::new's fetch_and, its test, and its restoring fetch_or.
Port_new_store(old, port) == BitAnd(old, BitNot16(required_pins(port)))

Port_new_some(value, port) == BitAnd(value, required_pins(port)) = required_pins(port)

Port_new_restore(old, value, port) == BitOr(old, BitAnd(value, required_pins(port)))

\* Drop for Port.
Port_drop_store(old, port) == BitOr(old, required_pins(port))

\* Whether the port's required mask contains the pin.
Covers(port, pin) ==
    /\ get_16_bit_port_index(port) = extract_port_number(pin)
    /\ Bit(required_pins(port), extract_pin_number(pin)) = 1

\* How often the pin occurs in s[from..to].
RECURSIVE Occurs(_, _, _, _)
Occurs(s, from, to, pin) ==
    IF from > to THEN 0
    ELSE (IF s[from] = pin THEN 1 ELSE 0) + Occurs(s, from + 1, to, pin)

\* The Pin tokens a frame holds: the pins a PinSet::new has allocated so far,
\* the ones its release loop or a PinSet's drop has still to release.
HeldBy(f, pin) ==
    CASE f.op = "PinSet::new"  -> Occurs(f.pins, 1, f.n, pin)
      [] f.op = "PinSet::undo" -> Occurs(f.pins, f.i, f.n, pin)
      [] f.op = "PinSet::drop" -> Occurs(f.pins, f.i, COUNT, pin)
      [] OTHER -> 0

RECURSIVE SumHeld(_, _, _)
SumHeld(s, k, pin) ==
    IF k > Len(s) THEN 0 ELSE HeldBy(s[k], pin) + SumHeld(s, k + 1, pin)

\* The live PinSet tokens of the arrays in S, counted once per occurrence
\* of the pin in the array.
RECURSIVE SetOwners(_, _)
SetOwners(S, pin) ==
    IF S = {} THEN 0
    ELSE LET ps == CHOOSE y \in S : TRUE
         IN  pinsets[ps] * Occurs(ps, 1, COUNT, pin) + SetOwners(S \ {ps}, pin)

\* The live Pin tokens of a pin name, alone or inside a PinSet.
PinOwners(pin) == pins[pin] + SetOwners(PinSetInputs, pin) + SumHeld(stack, 1, pin)

\* The live Port tokens, among the ports in S, that cover a pin.
RECURSIVE PortOwnersIn(_, _)
PortOwnersIn(S, pin) ==
    IF S = {} THEN 0
    ELSE LET port == CHOOSE y \in S : TRUE
         IN  (IF Covers(port, pin) THEN ports[port] ELSE 0)
             + PortOwnersIn(S \ {port}, pin)

PortOwners(pin) == PortOwnersIn(PortInputs, pin)

Owners(pin) == PinOwners(pin) + PortOwners(pin)

RECURSIVE Total(_, _)
Total(f, S) ==
    IF S = {} THEN 0
    ELSE LET x == CHOOSE y \in S : TRUE IN f[x] + Total(f, S \ {x})

\* The PinSet::new operations in flight.
RECURSIVE Building(_, _)
Building(s, k) ==
    IF k > Len(s) THEN 0
    ELSE (IF s[k].op \in {"PinSet::new", "PinSet::undo"} THEN 1 ELSE 0)
         + Building(s, k + 1)

\* The tokens alive, a PinSet being built counting as one.
TokenCount ==
    Total(pins, PinInputs) + Total(ports, PortInputs)
    + Total(pinsets, PinSetInputs) + Building(stack, 1)

\* Whether a call may return a new token (some says whether it would).
MayAllocate(some) == some => TokenCount < MaxTokens

(***************************************************************************)
(* GPIO pins and the port-in-use token (src/src/gpio/pin.rs).              *)
(***************************************************************************)

\* The pins the model's GpioPins were made from: the two halves of port A.
GpioPinInputs == {PA_0, PA_8}

\* Pin::get_port of a GpioPin's pin.
get_port(pin) == [number |-> extract_port_number(pin), size |-> Port16Bit]

\* A gpio_pin_new that gives one in-use bit to each 16-bit port.
port_in_use_mask_per_port(pin) ==
    ShiftLeft16(1, (get_16_bit_port_index(get_port(pin)) * 2) % 256)

\* gpio_pin_new: the in-use bit of the pin's 8-bit port.
port_in_use_mask(pin) ==
    LET pin_offset == extract_pin_number(pin)
        in_use_shift == (get_16_bit_port_index(get_port(pin)) * 2) % 256
        in_use_mask == IF pin_offset > 7 THEN 2 ELSE 1
    IN  ShiftLeft16(in_use_mask, in_use_shift)

\* GpioPortBus::get_port_in_use_token: the free_mask of a bus's token.
BUS_FREE_MASK == 0

\* The free_masks of the tokens the model's pins and buses obtain.
PinMasks == {port_in_use_mask(pin) : pin \in GpioPinInputs}

TokenMasks == PinMasks \cup {BUS_FREE_MASK}

\* A get_port_in_use_token that reads the lock without setting the bit.
get_port_in_use_token_load(old, mask) == old

\* GpioPin::get_port_in_use_token: its fetch_or and its result.
get_port_in_use_token_store(old, mask) == BitOr(old, mask)

\* A get_port_in_use_token that wants every 8-bit port free.
get_port_in_use_token_all_free(previous_value, mask) == previous_value = 0

get_port_in_use_token_some(previous_value, mask) ==
    ~(BitAnd(previous_value, mask) # 0)

\* A Drop that keeps the free_mask's bits and clears the others.
token_drop_store_keeps_free_mask(old, free_mask) == BitAnd(old, free_mask)

\* Drop for GpioPortInUseToken: the fetch_and that clears the free_mask.
token_drop_store(old, free_mask) == BitAnd(old, BitNot16(free_mask))

\* The configurations of a GpioPin.
Disabled == "Disabled"
HighImpedance == "GpioInConfig<HighImpedance>"
PullUp == "GpioInConfig<PullUp>"
PullDown == "GpioInConfig<PullDown>"
PushPull == "GpioOutConfig<PushPull>"
OpenCollector == "GpioOutConfig<OpenCollector>"

GpioInConfig == {HighImpedance, PullUp, PullDown}
GpioOutConfig == {PushPull, OpenCollector}
GpioConfig == {Disabled} \cup GpioInConfig \cup GpioOutConfig

\* The state-changing conversions: the register writes, in the code's order.
to_input_highz_no_sync(r) ==
    [r EXCEPT !.resistor_enable = 0, !.direction = 0]

to_input_pullup_no_sync(r) ==
    [r EXCEPT !.resistor_enable = 1, !.direction = 0, !.output = 1]

to_input_pulldown_no_sync(r) ==
    [r EXCEPT !.resistor_enable = 1, !.direction = 0, !.output = 0]

to_output_pushpull_no_sync(r) ==
    [r EXCEPT !.output = 0, !.direction = 1]

to_output_opencollector_no_sync(r) ==
    [r EXCEPT !.output = 0, !.direction = 1, !.resistor_enable = 1]

\* The outputs' operations; an open collector output drives low or lets go.
set_no_sync(cfg, r) ==
    IF cfg = OpenCollector
    THEN [r EXCEPT !.direction = 0, !.output = 1]
    ELSE [r EXCEPT !.output = 1]

clear_no_sync(cfg, r) ==
    IF cfg = OpenCollector
    THEN [r EXCEPT !.output = 0, !.direction = 1]
    ELSE [r EXCEPT !.output = 0]

\* input is what the input register reads.
toggle_no_sync(cfg, r, input) ==
    IF cfg = OpenCollector
    THEN (IF input = 0 THEN set_no_sync(cfg, r) ELSE clear_no_sync(cfg, r))
    ELSE [r EXCEPT !.output = (r.output + 1) % 2]

\* What the input register can read: the level the pin drives, or any level
\* when the pin does not drive.
InputLevels(r) == IF r.direction = 1 THEN {r.output} ELSE {0, 1}

RegValues == [resistor_enable : {0, 1}, direction : {0, 1}, output : {0, 1}]

(***************************************************************************)
(* The registers of a GPIO port and the devices that write them, write by  *)
(* write: GpioPin (src/src/gpio/pin.rs), GpioPortBus and GpioSectionBus    *)
(* (src/src/gpio/bus).                                                     *)
(***************************************************************************)

ALL_PINS_MASK == 65535

\* PortSectionX::get_mask, as the u16 the section bus uses.
get_mask(size, offset) == ((size - 1) * 2 ^ offset) % U16

\* The devices of the model: the GpioPin of PA_8, the bus of the whole port,
\* the bus of PortSection4 at offset 4.  mask holds the bits a write changes.
PortSection4 == [size |-> 4, offset |-> 4]

GpioPinDev == [kind |-> "GpioPin", mask |-> pin_mask(PA_8)]
GpioPortBusDev == [kind |-> "GpioPortBus", mask |-> ALL_PINS_MASK]
GpioSectionBusDev == [kind |-> "GpioSectionBus", mask |-> get_mask(PortSection4.size, PortSection4.offset)]

RegDevices == {GpioPinDev, GpioPortBusDev, GpioSectionBusDev}

\* The values the registers may hold when the device is made.
RegInputs == {0, 23130, ALL_PINS_MASK}

RegNames == {"resistor_enable", "direction", "output"}

\* One statement of an operation: a write of all the device's bits of a
\* register to one level, or a compiler_fence.
W(reg, level) == [reg |-> reg, level |-> level]

Fence == [reg |-> "fence", level |-> 0]

\* The statements of the five transitions, in program order; the pin, the
\* port bus and the section bus write the same registers in the same order.
to_input_highz_writes == <<W("resistor_enable", 0), W("direction", 0)>>

to_input_pullup_writes ==
    <<W("resistor_enable", 1), W("direction", 0), W("output", 1)>>

\* A to_input_pulldown that leaves the output register as it is.
to_input_pulldown_keeps_output ==
    <<W("resistor_enable", 1), W("direction", 0)>>

to_input_pulldown_writes ==
    <<W("resistor_enable", 1), W("direction", 0), W("output", 0)>>

to_output_pushpull_writes == <<W("output", 0), W("direction", 1)>>

to_output_opencollector_writes ==
    <<W("output", 0), W("direction", 1), W("resistor_enable", 1)>>

TransitionWrites(target) ==
    CASE target = HighImpedance -> to_input_highz_writes
      [] target = PullUp -> to_input_pullup_writes
      [] target = PullDown -> to_input_pulldown_writes
      [] target = PushPull -> to_output_pushpull_writes
      [] target = OpenCollector -> to_output_opencollector_writes

\* The statements of a GpioPin's set, clear and toggle.  bit is the pin's
\* output bit and input what its input register reads.
\* A set that writes the output before it releases the line.
set_output_first(cfg) ==
    IF cfg = OpenCollector
    THEN <<W("output", 1), Fence, W("direction", 0)>>
    ELSE <<W("output", 1)>>

set_writes(cfg) ==
    IF cfg = OpenCollector
    THEN <<W("direction", 0), Fence, W("output", 1)>>
    ELSE <<W("output", 1)>>

\* A clear that drives the line before it writes the output.
clear_direction_first(cfg) ==
    IF cfg = OpenCollector
    THEN <<W("direction", 1), Fence, W("output", 0)>>
    ELSE <<W("output", 0)>>

clear_writes(cfg) ==
    IF cfg = OpenCollector
    THEN <<W("output", 0), Fence, W("direction", 1)>>
    ELSE <<W("output", 0)>>

\* A toggle that sets, whatever it reads.
toggle_writes_sets(cfg, bit, input) == set_writes(cfg)

toggle_writes(cfg, bit, input) ==
    IF cfg = OpenCollector
    THEN (IF input = 0 THEN set_writes(cfg) ELSE clear_writes(cfg))
    ELSE <<W("output", (bit + 1) % 2)>>

\* The new value of a register after a write by the device:
\*   GpioPin         a store to the bit's bit-band alias changes that bit
\*   GpioPortBus     set_halfword stores the whole register
\*   GpioSectionBus  modify reads, changes the bits of the mask, writes
write_reg(d, old, level) ==
    CASE d.kind = "GpioPin" ->
             IF level = 1 THEN BitOr(old, d.mask) ELSE BitAnd(old, BitNot16(d.mask))
      [] d.kind = "GpioPortBus" ->
             IF level = 1 THEN ALL_PINS_MASK ELSE 0
      [] d.kind = "GpioSectionBus" ->
             IF level = 1 THEN BitOr(old, d.mask) ELSE BitAnd(old, BitNot16(d.mask))

RegOps ==
    {"new", "to", "set", "clear", "toggle",
     "write", "set_bits", "clear_bits", "toggle_bits"}

\* The registers and the device while the allocator or the token runs.
RegIdle ==
    /\ hw = [r \in RegNames |-> 0]
    /\ dev = [kind |-> GpioPinDev.kind, mask |-> GpioPinDev.mask,
              mode |-> Disabled, from |-> Disabled, to |-> Disabled,
              op |-> "new", written |-> <<>>, input |-> 0]
    /\ pending = <<>>

(***************************************************************************)
(* Pin names of src/src/pin/names.rs and their conversions.                *)
(***************************************************************************)

PortName(number, size) == [number |-> number, size |-> size]

PinName(port_name, pin_offset) ==
    [port_name |-> port_name, pin_offset |-> pin_offset]

\* The 16-bit pin names PA_0 .. PE_15 and PJ_0 .. PJ_5.
PinNames16 ==
    {PinName(PortName(n, Port16Bit), o) : n \in 0..4, o \in 0..15}
        \cup {PinName(PortName(5, Port16Bit), o) : o \in 0..5}

\* The 8-bit pin names P1_0 .. P10_7 and PJ_0_8 .. PJ_5_8.
PinNames8 ==
    {PinName(PortName(n, Port8Bit), o) : n \in 0..9, o \in 0..7}
        \cup {PinName(PortName(10, Port8Bit), o) : o \in 0..5}

PinNames == PinNames16 \cup PinNames8

\* A get_8_bit_port_index that takes the lower half whatever the half.
get_8_bit_port_index_lower(port, half) ==
    IF port.size = Port16Bit THEN port.number * 2 ELSE port.number

get_8_bit_port_index(port, half) ==
    IF port.size = Port16Bit
    THEN (IF half = "Lower" THEN port.number * 2 ELSE port.number * 2 + 1)
    ELSE port.number

\* A to_16_bit that keeps the offset within the 8-bit port.
PinName_to_16_bit_same_offset(self) ==
    IF self.port_name.size = Port16Bit
    THEN self
    ELSE PinName(PortName(get_16_bit_port_index(self.port_name), Port16Bit),
                 self.pin_offset)

\* PinName::to_8_bit and PinName::to_16_bit.
PinName_to_8_bit(self) ==
    IF self.port_name.size = Port8Bit
    THEN self
    ELSE IF self.pin_offset < 8
         THEN PinName(PortName(get_8_bit_port_index(self.port_name, "Lower"),
                               Port8Bit),
                      self.pin_offset)
         ELSE PinName(PortName(get_8_bit_port_index(self.port_name, "Upper"),
                               Port8Bit),
                      self.pin_offset - 8)

PinName_to_16_bit(self) ==
    IF self.port_name.size = Port16Bit
    THEN self
    ELSE PinName(PortName(get_16_bit_port_index(self.port_name), Port16Bit),
                 IF is_upper_half_port(self.port_name)
                 THEN self.pin_offset + 8
                 ELSE self.pin_offset)

\* A call of a conversion: the function, its argument and what it returned.
NoCall == [fn |-> "none"]

(***************************************************************************)
(* The enum-typed pin names (src/src/pin/mod.rs).                          *)
(***************************************************************************)

\* The declared variants of PortName16, PortName8 and PinOffset, by value.
PortName16 == 0..5
PortName8 == {2 * n : n \in PortName16} \cup {2 * n + 1 : n \in PortName16 \ {5}}
PinOffset == 0..(NUM_PINS_IN_PORT - 1)

\* The PinName constants: P1_0 .. P10_7, PJ_0_8 .. PJ_5_8 and PA_0 .. PE_15,
\* PJ_0 .. PJ_5.
PinNameConsts ==
    [port_name : [kind : {"Port8"}, value : PortName8 \ {10}], pin_offset : 0..7]
        \cup [port_name : [kind : {"Port8"}, value : {10}], pin_offset : 0..5]
        \cup [port_name : [kind : {"Port16"}, value : PortName16 \ {5}], pin_offset : PinOffset]
        \cup [port_name : [kind : {"Port16"}, value : {5}], pin_offset : 0..5]

\* core::mem::transmute of a usize to a fieldless enum: the variant with that
\* value; for a value that is no variant the behaviour is undefined, and the
\* outcome is the value as it stands or any variant.
transmute(value, variants) ==
    IF value \in variants THEN {value} ELSE variants \cup {value}

\* PinName::to_8_bit and PinName::to_16_bit: the PinName8 / PinName16 values
\* a call can return.
to_8_bit(self) ==
    IF self.port_name.kind = "Port16"
    THEN LET port_name == self.port_name.value
             port == IF self.pin_offset >= 8
                     THEN port_name \div 2 + 1 ELSE port_name \div 2
             offset == IF self.pin_offset >= 8
                       THEN self.pin_offset - 8 ELSE self.pin_offset
         IN  {[port_name |-> p, pin_offset |-> o] :
                  p \in transmute(port, PortName8), o \in transmute(offset, PinOffset)}
    ELSE {[port_name |-> self.port_name.value, pin_offset |-> self.pin_offset]}

to_16_bit(self) ==
    IF self.port_name.kind = "Port8"
    THEN LET port == self.port_name.value
             offset == IF port % 2 = 0
                       THEN self.pin_offset ELSE self.pin_offset + 8
         IN  {[port_name |-> p, pin_offset |-> o] :
                  p \in transmute(port * 2, PortName16),
                  o \in transmute(offset, PinOffset)}
    ELSE {[port_name |-> self.port_name.value, pin_offset |-> self.pin_offset]}

\* The port names PORTA .. PORTE, PORTJ and PORT1 .. PORT10, PORTJ_8BIT.
PortNames ==
    {PortName(n, Port16Bit) : n \in 0..5} \cup {PortName(n, Port8Bit) : n \in 0..10}

\* PortNameConversionResult: SinglePort(port), TwoPorts([lower, upper]) or
\* HalfPort(port, half).
PortNameConversionResult(kind, names, half) ==
    [kind |-> kind, ports |-> names, half |-> half]

\* PortName::to_8_bit and PortName::to_16_bit.
PortName_to_8_bit(self) ==
    IF self.size = Port8Bit
    THEN PortNameConversionResult("SinglePort", <<self>>, "none")
    ELSE LET lower_port == PortName(get_8_bit_port_index(self, "Lower"), Port16Bit)
             upper_port == PortName(get_8_bit_port_index(self, "Lower"), Port16Bit)
         IN  PortNameConversionResult("TwoPorts", <<lower_port, upper_port>>, "none")

PortName_to_16_bit(self) ==
    IF self.size = Port16Bit
    THEN PortNameConversionResult("SinglePort", <<self>>, "none")
    ELSE LET half == IF is_upper_half_port(self) THEN "Upper" ELSE "Lower"
             port_name == PortName(get_16_bit_port_index(self), Port8Bit)
         IN  PortNameConversionResult("HalfPort", <<port_name>>, half)

PinNameCall(fn, self) ==
    [fn |-> fn, self |-> self,
     ret |-> IF fn = "to_8_bit" THEN PinName_to_8_bit(self)
             ELSE PinName_to_16_bit(self)]

(***************************************************************************)
(* The bit-band alias of src/src/registers.rs.                             *)
(***************************************************************************)

PERIPHERAL_BASE == 1073741824
PERIPHERAL_END == 1074790399
PERIPHERAL_BITBAND_BASE == 1107296256
PERIPHERAL_BITBAND_END == 1140850687

\* An alias that gives each byte sixteen bytes of the alias region.
peripheral_to_bitband_alias_16(address, bit) ==
    LET byte_offset == address - PERIPHERAL_BASE
    IN  PERIPHERAL_BITBAND_BASE + (byte_offset * 16) + (bit * 4)

\* For an address of the peripheral window, which the debug_asserts require,
\* and a bit of a u8 no u32 operation wraps: every value stays below 2^31.
peripheral_to_bitband_alias(address, bit) ==
    LET byte_offset == address - PERIPHERAL_BASE
    IN  PERIPHERAL_BITBAND_BASE + (byte_offset * 32) + (bit * 4)

\* The byte addresses the model's callers pass: the ends of the peripheral
\* window, neighbouring bytes, and the output register of port A.
AliasAddresses ==
    {PERIPHERAL_BASE, PERIPHERAL_BASE + 1,
     PERIPHERAL_BASE + 19458, PERIPHERAL_BASE + 19459,
     PERIPHERAL_END}

\* The bits they pass: those of a byte, of a halfword register (gpio_pin_new
\* passes the pin's offset) and of a word register.
AliasBits == 0..31

\* A call that takes the bit for a byte offset.
AliasCallOfByte(address, bit) ==
    [fn |-> "peripheral_to_bitband_alias", address |-> address, bit |-> bit,
     ret |-> peripheral_to_bitband_alias(address + bit, 0)]

AliasCall(address, bit) ==
    [fn |-> "peripheral_to_bitband_alias", address |-> address, bit |-> bit,
     ret |-> peripheral_to_bitband_alias(address, bit)]

(***************************************************************************)
(* The function select registers of a GPIO port (src/src/gpio/mod.rs).     *)
(***************************************************************************)

RECURSIVE BitXor(_, _)
BitXor(a, b) ==
    IF a = 0 THEN b
    ELSE IF b = 0 THEN a
    ELSE ((a + b) % 2) + 2 * BitXor(a \div 2, b \div 2)

\* The select registers after a store of the halfword to the register: a 1
\* written to a bit of complement_selection inverts that bit of select_0 and
\* of select_1.
sel_store(s, reg, value) ==
    CASE reg = "select_0" -> [s EXCEPT !.select_0 = value]
      [] reg = "select_1" -> [s EXCEPT !.select_1 = value]
      [] reg = "complement_selection" ->
             [select_0 |-> BitXor(s.select_0, value),
              select_1 |-> BitXor(s.select_1, value)]

\* The select registers after a store of the level to the bit-band alias of
\* the bit of the register.
sel_store_bit(s, reg, bit, level) ==
    CASE reg = "complement_selection" ->
             sel_store(s, reg, level * 2 ^ bit)
      [] OTHER ->
             sel_store(s, reg,
                       IF level = 1 THEN BitOr(s[reg], 2 ^ bit)
                       ELSE BitAnd(s[reg], BitNot16(2 ^ bit)))

\* set_pin_function_to_gpio of gpio/pin.rs: sel1_reg is made from the
\* address of select_0, as sel0_reg is.
set_pin_function_to_gpio(s, pin_offset) ==
    LET sel0_reg == "select_0"
        sel1_reg == "select_0"
        select_status == Bit(s[sel1_reg], pin_offset) * 2
                             + Bit(s[sel0_reg], pin_offset)
    IN  CASE select_status = 1 -> sel_store_bit(s, sel0_reg, pin_offset, 0)
          [] select_status = 2 -> sel_store_bit(s, sel1_reg, pin_offset, 0)
          [] select_status = 3 ->
                 sel_store_bit(s, "complement_selection", pin_offset, 1)
          [] OTHER -> s

\* set_pin_function_to_gpio of gpio/single/mod.rs: with both bits set it
\* computes the alias of the complement register and stores nothing.
single_set_pin_function_to_gpio(s, pin_offset) ==
    LET sel0_reg == "select_0"
        sel1_reg == "select_1"
        select_status == Bit(s[sel1_reg], pin_offset) * 2
                             + Bit(s[sel0_reg], pin_offset)
    IN  CASE select_status = 1 -> sel_store_bit(s, sel0_reg, pin_offset, 0)
          [] select_status = 2 -> sel_store_bit(s, sel1_reg, pin_offset, 0)
          [] OTHER -> s

\* A gpio_port_bus_new that clears select_0 before it stores to
\* complement_selection.
gpio_port_bus_new_clears_first(s) ==
    LET selc == BitAnd(s.select_0, s.select_1)
    IN  <<[reg |-> "select_0", value |-> 0],
          [reg |-> "complement_selection", value |-> selc],
          [reg |-> "select_1", value |-> 0]>>

\* The stores of gpio_port_bus_new, after its reads of select_0 and select_1.
gpio_port_bus_new_stores(s) ==
    LET sel0 == s.select_0
        sel1 == s.select_1
        selc == BitAnd(sel0, sel1)
    IN  <<[reg |-> "complement_selection", value |-> selc],
          [reg |-> "select_0", value |-> 0],
          [reg |-> "select_1", value |-> 0]>>

\* The values the select registers may hold when a device is made.
SelInputs == {0, 13260, 23130, ALL_PINS_MASK}

\* The offsets in the port of the pins the model's callers make devices of.
SelOffsets == {0, 8}

\* No device has been made; the select registers as after a reset.
SelIdle ==
    /\ sel = [select_0 |-> 0, select_1 |-> 0]
    /\ sel_call = [fn |-> "none", orig |-> sel, pin_offset |-> 0]
    /\ sel_pending = <<>>

\* GpioSectionBus write, set_bits, clear_bits and toggle_bits for a section
\* of the mask at the offset: the value the closure passed to modify returns
\* for the content read from the output register.
section_modified(op, content, arg, mask, offset) ==
    LET masked_value == BitAnd(ShiftLeft16(arg, offset), mask)
    IN  CASE op = "write" -> BitOr(BitAnd(content, BitNot16(mask)), masked_value)
          [] op = "set_bits" -> BitOr(content, masked_value)
          [] op = "clear_bits" -> BitAnd(content, BitNot16(masked_value))
          [] op = "toggle_bits" -> BitXor(content, masked_value)

\* ReadWrite::modify: the content its write applies the closure to is the
\* content its read returned, whatever the register holds by then.
modify_content(content, current) == content

\* GpioBusInput::read of a GpioSectionBus, for the content of the input
\* register.
section_read(input, mask, offset) == BitAnd(input, mask) \div 2 ^ offset

SectionOps == {"write", "set_bits", "clear_bits", "toggle_bits"}

\* The values and masks the model's callers pass to the bus operations.
BusArgs == {0, 5, 10, 15}

\* One statement of a port bus operation: set_halfword of a register, or a
\* compiler_fence.
Store(reg, value) == [reg |-> reg, value |-> value]

StoreFence == [reg |-> "fence", value |-> 0]

\* The output operations of an open-collector GpioPortBus on the registers
\* h: their statements in program order, each with the halfword it stores.
\* The bus owns the whole port, so what a later statement reads is what the
\* earlier ones stored.
write_no_sync(h, value) ==
    LET cleared_bits == BitAnd(h["direction"], BitNot16(value))
        set_bits == BitOr(cleared_bits, value)
    IN  <<Store("direction", cleared_bits), StoreFence, Store("output", value),
          StoreFence, Store("direction", set_bits)>>

set_bits_no_sync(h, set_mask) ==
    <<Store("direction", BitAnd(h["direction"], BitNot16(set_mask))), StoreFence,
      Store("output", BitOr(h["output"], set_mask))>>

clear_bits_no_sync(h, clear_mask) ==
    <<Store("output", BitAnd(h["output"], BitNot16(clear_mask))), StoreFence,
      Store("direction", BitOr(h["direction"], clear_mask))>>

toggle_bits_no_sync(h, toggle_mask) ==
    write_no_sync(h, BitXor(h["output"], toggle_mask))

\* The values and masks the model's callers pass to a port bus.
PortBusArgs == {0, 13260, 23130, ALL_PINS_MASK}

\* No get_mcu_pins has been called: the static as it is initialised.
McuIdle ==
    /\ MCU_PINSET = "Some"
    /\ mcu_stack = <<>>
    /\ mcu_results = <<>>

\* Option::take: the value it returns for the content it read.
take_value(content) == content

\* PortSection2 .. PortSection15 at the offsets that keep them in the port.
PortSections ==
    {section \in [size : 2..(NUM_PINS_IN_PORT - 1),
                  offset : 0..(NUM_PINS_IN_PORT - 2)] :
        section.size + section.offset <= NUM_PINS_IN_PORT}

\* No get_mask has been called.
MaskIdle ==
    mask_call = [fn |-> "none", size |-> PortSection4.size,
                 offset |-> PortSection4.offset, ret |-> 0]

\* The PinNames of src/src/pin.rs: PA_0 .. PE_15 and PJ_0 .. PJ_5.
PinNameValues ==
    {pin_name(port, pin) : port \in 0..4, pin \in 0..(NUM_PINS_IN_PORT - 1)}
        \cup {pin_name(5, pin) : pin \in 0..5}

\* The aliases P1_0 .. P10_7: pin `offset` of 8-bit port `port`.
pin_alias(port, offset) ==
    pin_name((port - 1) \div 2, offset + 8 * ((port - 1) % 2))

\* No gpio_pin_new has been called.
InUseIdle == gpio_prev = NoCall /\ gpio_last = NoCall

\* The rest of the crate is idle.
(***************************************************************************)
(* The watchdog timer (src/src/watchdog.rs).                               *)
(***************************************************************************)

WDTPW_SHIFT == 8
WDTPW_MASK == ShiftLeft16(255, WDTPW_SHIFT)
WDTPW_WRITE == ShiftLeft16(90, WDTPW_SHIFT)
WDTPW_READ == ShiftLeft16(105, WDTPW_SHIFT)

WDTHOLD_SHIFT == 7
WDTHOLD_MASK == ShiftLeft16(1, WDTHOLD_SHIFT)

\* The low bytes WDTCTL may hold when the driver is first used.
WdtLowBytes == 0..(2 ^ WDTPW_SHIFT - 1)

\* read_volatile and write_volatile of WDTCTL: the register keeps the low
\* byte written and reads back with the read password in its upper byte.
wdt_read(reg) == reg
wdt_write(value) == BitOr(WDTPW_READ, BitAnd(value, BitNot16(WDTPW_MASK)))

\* The value WatchdogTimer::disable writes, from the value it read.
disable_value(read) ==
    BitOr(BitAnd(read, BitNot16(WDTPW_MASK)), BitOr(WDTPW_WRITE, WDTHOLD_MASK))

\* The value WatchdogTimer::enable writes, from the value it read.
enable_value(read) ==
    BitOr(BitAnd(read, BitAnd(BitNot16(WDTPW_MASK), BitNot16(WDTHOLD_MASK))),
          BitOr(WDTPW_WRITE, WDTHOLD_MASK))

WdtIdle ==
    /\ WDT_A_IN_USE = FALSE
    /\ wdt_timer = FALSE
    /\ WDTCTL = BitOr(WDTPW_READ, ShiftLeft16(1, 2))
    /\ wdt_last = NoCall

(***************************************************************************)
(* retry_if (src/src/lib.rs).                                              *)
(***************************************************************************)

\* The results the operation passed to retry_if may return.
OperationResults == {"busy", "done", "fault"}

\* num_tries: None, or Some(attempts) with attempts a NonZeroU32; None is
\* the value 0 that no NonZeroU32 takes.
None == 0
NumTries == {None} \cup 1..MaxTries

\* A call of retry_if: its arguments, the number of iterations of the for
\* loop begun, and what it returned ("running" until it returns).
RetryCall(num_tries, retry_result) ==
    [num_tries |-> num_tries, retry_result |-> retry_result, tries |-> 0,
     ret |-> "running", result |-> retry_result]

\* One iteration of the loop of retry_if, with the result the operation
\* returned in it: Ok(result) when the result differs from retry_result,
\* Err(()) when the for loop over 0..attempts has ended.
retry_if_any_result(call, result) ==
    [call EXCEPT !.tries = IF call.num_tries = None THEN 0 ELSE @ + 1,
                 !.ret = "Ok", !.result = result]

retry_if(call, result) ==
    LET tries == IF call.num_tries = None THEN 0 ELSE call.tries + 1
    IN  IF result # call.retry_result
        THEN [call EXCEPT !.tries = tries, !.ret = "Ok", !.result = result]
        ELSE IF call.num_tries # None /\ tries = call.num_tries
             THEN [call EXCEPT !.tries = tries, !.ret = "Err"]
             ELSE [call EXCEPT !.tries = tries]

RetryIdle ==
    /\ retry = [RetryCall(None, "busy") EXCEPT !.ret = "none"]
    /\ retry_invoked = 0
    /\ retry_other = FALSE

(***************************************************************************)
(* single_proc_critical_section (src/src/interrupt.rs).                    *)
(***************************************************************************)

\* cpsid i and cpsie i: the value of PRIMASK after disable_interrupts and
\* after enable_interrupts (TRUE masks the interrupts).
disable_interrupts == TRUE
enable_interrupts == FALSE

CsIdle ==
    /\ PRIMASK = enable_interrupts
    /\ cs_stack = <<>>
    /\ isr_in_section = FALSE

PortIdle == port_prev = NoCall /\ port_last = NoCall

\* No call of the remaining library functions has been made.
CallsIdle ==
    /\ InUseIdle
    /\ PortIdle
    /\ enum_last = NoCall
    /\ WdtIdle
    /\ RetryIdle
    /\ CsIdle

LibIdle ==
    /\ MaskIdle
    /\ CallsIdle











\* No conversion has been called.
FnIdle ==
    /\ pin_arg = PinName(PORTA, 0)
    /\ pin_prev = NoCall /\ pin_last = NoCall
    /\ alias_prev = NoCall /\ alias_last = NoCall
    /\ SelIdle
    /\ McuIdle
    /\ LibIdle

RelValues == {"no", "freed", "reacquired", "refused"}

TokValues == RelValues \cup {"denied"}

TypeOK ==
    /\ package \in Packages
    /\ irq_enabled \in BOOLEAN
    /\ avail \in [0..5 -> 0..(U16 - 1)]
    /\ pins \in [PinInputs -> 0..MaxTokens]
    /\ ports \in [PortInputs -> 0..MaxTokens]
    /\ pinsets \in [PinSetInputs -> 0..MaxTokens]
    /\ Len(stack) <= COUNT
    /\ TokenCount <= MaxTokens
    /\ rel \in [PinInputs -> RelValues]
    /\ in_use_lock \in 0..(U16 - 1)
    /\ tokens \in [TokenMasks -> Nat]
    /\ tokens[BUS_FREE_MASK] <= MaxBusTokens
    /\ config \in [GpioPinInputs -> GpioConfig]
    /\ regs \in [GpioPinInputs -> RegValues]
    /\ tok \in [PinMasks -> TokValues]
    /\ hw \in [RegNames -> 0..(U16 - 1)]
    /\ [kind |-> dev.kind, mask |-> dev.mask] \in RegDevices
    /\ dev.mode \in GpioConfig /\ dev.from \in GpioConfig /\ dev.to \in GpioConfig
    /\ dev.op \in RegOps
    /\ dev.input \in {0, 1}
    /\ Len(dev.written) + Len(pending) <= Len(write_no_sync(hw, 0))
    /\ pin_arg \in PinNames
    /\ \A c \in {pin_prev, pin_last} :
           c # NoCall => c.self \in PinNames /\ c.ret \in PinNames
    /\ \A c \in {alias_prev, alias_last} :
           c # NoCall => c.address \in AliasAddresses /\ c.bit \in AliasBits
                         /\ c.ret \in Nat
    /\ sel \in [{"select_0", "select_1"} -> 0..(U16 - 1)]
    /\ sel_call.orig \in [{"select_0", "select_1"} -> 0..(U16 - 1)]
    /\ sel_call.pin_offset \in 0..15
    /\ Len(sel_pending) <= 3
    /\ MCU_PINSET \in {"Some", "None"}
    /\ \A i \in DOMAIN mcu_stack :
           mcu_stack[i] \in [pc : {"read", "write"}, value : {"Some", "None"}]
    /\ mcu_results \in Seq({"Some", "None"})
    /\ Len(mcu_stack) + Len(mcu_results) <= MaxCalls
    /\ mask_call.fn \in {"none", "get_mask"}
    /\ [size |-> mask_call.size, offset |-> mask_call.offset] \in PortSections
    /\ mask_call.ret \in 0..(U16 - 1)
    /\ \A c \in {gpio_prev, gpio_last} :
           c # NoCall => c.pin \in PinNameValues
                         /\ c.port_in_use_mask \in 0..(U16 - 1)
    /\ \A c \in {port_prev, port_last} :
           c # NoCall => c.self \in PortNames
                         /\ c.ret.kind \in {"SinglePort", "TwoPorts", "HalfPort"}
    /\ enum_last # NoCall
           => /\ enum_last.fn \in {"to_8_bit", "to_16_bit"}
              /\ enum_last.self \in PinNameConsts
              /\ enum_last.ret \in [port_name : 0..20, pin_offset : PinOffset]
    /\ WDT_A_IN_USE \in BOOLEAN
    /\ wdt_timer \in BOOLEAN
    /\ wdt_timer => WDT_A_IN_USE
    /\ WDTCTL \in 0..(U16 - 1)
    /\ wdt_last.fn \in {"none", "acquire", "disable", "enable", "drop"}
    /\ wdt_last # NoCall
           => wdt_last.read \in 0..(U16 - 1) /\ wdt_last.written \in 0..(U16 - 1)
    /\ retry \in [num_tries : NumTries, retry_result : OperationResults,
                  tries : 0..MaxTries, result : OperationResults,
                  ret : {"none", "running", "Ok", "Err"}]
    /\ retry_invoked \in 0..MaxTries
    /\ retry_other \in BOOLEAN
    /\ PRIMASK \in BOOLEAN
    /\ cs_stack \in UNION {[1..n -> 0..MaxSteps] : n \in 0..MaxDepth}
    /\ isr_in_section \in BOOLEAN

\* No GpioPin has taken a token; the pins are as gpio_pin_new returns them,
\* their register bits as after a reset.
GpioInit ==
    /\ in_use_lock = 0
    /\ tokens = [m \in TokenMasks |-> 0]
    /\ config = [gp \in GpioPinInputs |-> Disabled]
    /\ regs = [gp \in GpioPinInputs |->
                  [resistor_enable |-> 0, direction |-> 0, output |-> 0]]
    /\ tok = [m \in PinMasks |-> "no"]

Init ==
    /\ package \in Packages
    /\ irq_enabled \in BOOLEAN
    /\ avail = PORT_PINS_AVAILABLE(package)
    /\ pins = [p \in PinInputs |-> 0]
    /\ ports = [p \in PortInputs |-> 0]
    /\ pinsets = [ps \in PinSetInputs |-> 0]
    /\ stack = <<>>
    /\ rel = [p \in PinInputs |-> "no"]
    /\ GpioInit
    /\ RegIdle
    /\ FnIdle

(***************************************************************************)
(* The history kept in rel.  A pin is "freed" from the drop of its only    *)
(* owner until the next attempt to allocate it; that attempt makes it      *)
(* "reacquired" (it returned Some) or "refused" (it returned None).        *)
(***************************************************************************)

\* After a Pin::new of the pin that returned Some (some) or None.
RelAttempt(r, pin, some) ==
    [r EXCEPT ![pin] = IF @ = "freed"
                       THEN (IF some THEN "reacquired" ELSE "refused")
                       ELSE "no"]

\* After a Port::new of the port: an attempt on every pin it covers.
RelPortAttempt(r, port) ==
    [p \in PinInputs |-> IF Covers(port, p) THEN "no" ELSE r[p]]

\* After the drop of a token covering the pins in S, given the number of
\* owners each pin is left with.
RelDrop(r, S, left) ==
    [p \in PinInputs |-> IF p \in S
                         THEN (IF left[p] = 0 THEN "freed" ELSE "no")
                         ELSE r[p]]

OwnersLeft == [p \in PinInputs |-> Owners(p)]

(***************************************************************************)
(* Operations.  Every atomic read-modify-write of the table is one step;   *)
(* a step taken while operations are in flight is taken by the running     *)
(* operation (the last frame) or by an interrupt handler preempting it.    *)
(***************************************************************************)

\* Pin::new(pin), src/src/pin.rs.
PinNew(pin) ==
    /\ MayStart
    /\ LET port == extract_port_number(pin)
           old == avail[port]
           some == Pin_new_some(old, pin)
       IN  /\ MayAllocate(some)
           /\ avail' = [avail EXCEPT ![port] = Pin_new_store(old, pin)]
           /\ pins' = IF some THEN [pins EXCEPT ![pin] = @ + 1] ELSE pins
           /\ rel' = RelAttempt(rel, pin, some)
    /\ UNCHANGED <<notalloc, package, irq_enabled, ports, pinsets, stack>>

\* Drop for Pin.
PinDrop(pin) ==
    /\ MayStart
    /\ pins[pin] > 0
    /\ LET port == extract_port_number(pin)
       IN  avail' = [avail EXCEPT ![port] = Pin_drop_store(@, pin)]
    /\ pins' = [pins EXCEPT ![pin] = @ - 1]
    /\ UNCHANGED <<notalloc, package, irq_enabled, ports, pinsets, stack>>
    /\ rel' = RelDrop(rel, {pin}, OwnersLeft')

\* Port::new(port): the fetch_and and, when every required pin was
\* available, the return of Some.  Otherwise the restore is still to come.
PortNew(port) ==
    /\ MayStart
    /\ LET port_index == get_16_bit_port_index(port)
           value == avail[port_index]
       IN  /\ MayAllocate(Port_new_some(value, port))
           /\ avail' = [avail EXCEPT ![port_index] = Port_new_store(value, port)]
           /\ IF Port_new_some(value, port)
              THEN /\ ports' = [ports EXCEPT ![port] = @ + 1]
                   /\ stack' = stack
              ELSE /\ ports' = ports
                   /\ stack' = Append(stack,
                                      Frame("Port::new", port,
                                            BitAnd(value, required_pins(port)),
                                            <<>>, 0, 0))
    /\ rel' = RelPortAttempt(rel, port)
    /\ UNCHANGED <<notalloc, package, irq_enabled, pins, pinsets>>

\* Port::new: the restoring fetch_or and the return of None.
PortNewRestore ==
    /\ Len(stack) > 0
    /\ Top.op = "Port::new"
    /\ LET port_index == get_16_bit_port_index(Top.port)
       IN  avail' = [avail EXCEPT
                        ![port_index] = Port_new_restore(@, Top.value, Top.port)]
    /\ stack' = Pop
    /\ UNCHANGED <<notalloc, package, irq_enabled, pins, ports, pinsets, rel>>

\* Drop for Port.
PortDrop(port) ==
    /\ MayStart
    /\ ports[port] > 0
    /\ LET port_index == get_16_bit_port_index(port)
       IN  avail' = [avail EXCEPT ![port_index] = Port_drop_store(@, port)]
    /\ ports' = [ports EXCEPT ![port] = @ - 1]
    /\ UNCHANGED <<notalloc, package, irq_enabled, pins, pinsets, stack>>
    /\ rel' = RelDrop(rel, {p \in PinInputs : Covers(port, p)}, OwnersLeft')

\* PinSet::new(set): the call and the first turn of its allocation loop.
PinSetNew(set) ==
    /\ MayStart
    /\ LET pin == set[1]
           port == extract_port_number(pin)
           old == avail[port]
           some == Pin_new_some(old, pin)
       IN  /\ MayAllocate(some)
           /\ avail' = [avail EXCEPT ![port] = Pin_new_store(old, pin)]
           /\ rel' = RelAttempt(rel, pin, some)
           /\ IF ~some
              THEN \* pins_allocated = 0: nothing to release, None
                   /\ stack' = stack
                   /\ pinsets' = pinsets
              ELSE IF COUNT = 1
              THEN /\ stack' = stack
                   /\ pinsets' = [pinsets EXCEPT ![set] = @ + 1]
              ELSE /\ stack' = Append(stack,
                                      Frame("PinSet::new", PORTA, 0, set, 2, 1))
                   /\ pinsets' = pinsets
    /\ UNCHANGED <<notalloc, package, irq_enabled, pins, ports>>

\* A turn of the allocation loop that tries the pin again when it is taken.
PinSetNewAllocRetry ==
    /\ Len(stack) > 0
    /\ Top.op = "PinSet::new"
    /\ LET pin == Top.pins[Top.i]
           port == extract_port_number(pin)
           old == avail[port]
           some == Pin_new_some(old, pin)
       IN  /\ avail' = [avail EXCEPT ![port] = Pin_new_store(old, pin)]
           /\ rel' = RelAttempt(rel, pin, some)
           /\ IF ~some
              THEN /\ stack' = stack
                   /\ pinsets' = pinsets
              ELSE IF Top.n + 1 = COUNT
              THEN /\ stack' = Pop
                   /\ pinsets' = [pinsets EXCEPT ![Top.pins] = @ + 1]
              ELSE /\ stack' = Append(Pop, [Top EXCEPT !.i = @ + 1, !.n = @ + 1])
                   /\ pinsets' = pinsets
    /\ UNCHANGED <<notalloc, package, irq_enabled, pins, ports>>

\* PinSet::new: a further turn of the allocation loop.
PinSetNewAlloc ==
    /\ Len(stack) > 0
    /\ Top.op = "PinSet::new"
    /\ LET pin == Top.pins[Top.i]
           port == extract_port_number(pin)
           old == avail[port]
           some == Pin_new_some(old, pin)
       IN  /\ avail' = [avail EXCEPT ![port] = Pin_new_store(old, pin)]
           /\ rel' = RelAttempt(rel, pin, some)
           /\ IF ~some
              THEN \* break: the pins allocated so far are released next
                   /\ stack' = Append(Pop, [Top EXCEPT !.op = "PinSet::undo",
                                                       !.i = 1])
                   /\ pinsets' = pinsets
              ELSE IF Top.n + 1 = COUNT
              THEN /\ stack' = Pop
                   /\ pinsets' = [pinsets EXCEPT ![Top.pins] = @ + 1]
              ELSE /\ stack' = Append(Pop, [Top EXCEPT !.i = @ + 1, !.n = @ + 1])
                   /\ pinsets' = pinsets
    /\ UNCHANGED <<notalloc, package, irq_enabled, pins, ports>>

\* PinSet::new: a turn of the loop releasing the allocated pins; after the
\* last turn it returns None.
PinSetNewUndo ==
    /\ Len(stack) > 0
    /\ Top.op = "PinSet::undo"
    /\ LET pin == Top.pins[Top.i]
           port == extract_port_number(pin)
       IN  /\ avail' = [avail EXCEPT ![port] = Pin_drop_store(@, pin)]
           /\ stack' = IF Top.i = Top.n
                       THEN Pop
                       ELSE Append(Pop, [Top EXCEPT !.i = @ + 1])
           /\ UNCHANGED <<notalloc, package, irq_enabled, pins, ports, pinsets>>
           /\ rel' = RelDrop(rel, {pin}, OwnersLeft')

\* The drop of a PinSet: the drop of its first pin.
PinSetDrop(set) ==
    /\ MayStart
    /\ pinsets[set] > 0
    /\ LET pin == set[1]
           port == extract_port_number(pin)
       IN  /\ avail' = [avail EXCEPT ![port] = Pin_drop_store(@, pin)]
           /\ pinsets' = [pinsets EXCEPT ![set] = @ - 1]
           /\ stack' = IF COUNT = 1
                       THEN stack
                       ELSE Append(stack,
                                   Frame("PinSet::drop", PORTA, 0, set, 2, COUNT))
           /\ UNCHANGED <<notalloc, package, irq_enabled, pins, ports>>
           /\ rel' = RelDrop(rel, {pin}, OwnersLeft')

\* The drop of a PinSet: the drop of a further pin.
PinSetDropStep ==
    /\ Len(stack) > 0
    /\ Top.op = "PinSet::drop"
    /\ LET pin == Top.pins[Top.i]
           port == extract_port_number(pin)
       IN  /\ avail' = [avail EXCEPT ![port] = Pin_drop_store(@, pin)]
           /\ stack' = IF Top.i = COUNT
                       THEN Pop
                       ELSE Append(Pop, [Top EXCEPT !.i = @ + 1])
           /\ UNCHANGED <<notalloc, package, irq_enabled, pins, ports, pinsets>>
           /\ rel' = RelDrop(rel, {pin}, OwnersLeft')

Next ==
    \/ \E pin \in PinInputs : PinNew(pin)
    \/ \E pin \in PinInputs : PinDrop(pin)
    \/ \E port \in PortInputs : PortNew(port)
    \/ PortNewRestore
    \/ \E port \in PortInputs : PortDrop(port)
    \/ \E set \in PinSetInputs : PinSetNew(set)
    \/ PinSetNewAlloc
    \/ PinSetNewUndo
    \/ \E set \in PinSetInputs : PinSetDrop(set)
    \/ PinSetDropStep

Spec == Init /\ [][Next]_vars

(***************************************************************************)
(* The table and its owners.                                               *)
(***************************************************************************)

\* Whether the package has the pin: its bit in the initial table.
Present(pin) ==
    Bit(PORT_PINS_AVAILABLE(package)[extract_port_number(pin)],
        extract_pin_number(pin)) = 1

\* The pin's bit in the table now.
AvailBit(pin) == Bit(avail[extract_port_number(pin)], extract_pin_number(pin))

\* The bits of a 16-bit port that the package does not have.
AbsentMask(port_index) == BitNot16(PORT_PINS_AVAILABLE(package)[port_index])

(***************************************************************************)
(* Properties of the allocator.                                            *)
(***************************************************************************)

\* C1: at most one live Pin, Port or PinSet member covers any pin, whatever
\* Pin::new, Port::new, PinSet::new and drops have run in the main thread
\* and in interrupt handlers.
C1_Exclusivity == \A pin \in PinInputs : Owners(pin) <= 1

\* C2: after the only live owner of a pin the package has was dropped, the
\* next attempt to allocate the pin, with no competing allocation in
\* between, is never refused.
C2_ReleaseThenReacquire ==
    \A pin \in PinInputs : Present(pin) => rel[pin] # "refused"

\* C2's case: a pin the package has was allocated again right after the
\* drop of its only owner.
C2_Reacquired ==
    \E pin \in PinInputs : Present(pin) /\ rel[pin] = "reacquired"

\* C3: a Port::new for a port covering an individually owned pin returns
\* None and leaves the owned pin's bit clear, during the call and after it;
\* with nothing else running, the table after the call is the table before.
C3_PortPinNonCorruption ==
    [][/\ \A port \in PortInputs :
            (PortNew(port) /\ \E pin \in PinInputs :
                                 Covers(port, pin) /\ PinOwners(pin) > 0)
            => /\ ports' = ports
               /\ \A pin \in PinInputs :
                      Covers(port, pin) /\ PinOwners(pin) > 0
                      => AvailBit(pin)' = 0
       /\ PortNewRestore
          => /\ \A pin \in PinInputs :
                    Covers(Top.port, pin) /\ PinOwners(pin)' > 0
                    => AvailBit(pin)' = 0
             /\ ~irq_enabled => avail' = Top.pre]_vars

\* C4: when a failing Port::new returns and nothing else is in flight, the
\* bit of every pin the package has is clear exactly when the pin is owned,
\* whatever Pin::new calls and Pin drops ran between its fetch_and and its
\* restoring fetch_or.
C4_FailureWindow ==
    [][(PortNewRestore /\ stack' = <<>>)
       => \A pin \in PinInputs :
              Present(pin) => (AvailBit(pin)' = 0 <=> Owners(pin)' > 0)]_vars

\* C5: with nothing else running, a PinSet::new that returns None leaves
\* the table as it was before the call, and no pin allocated for the set.
C5_AllOrNothing ==
    [][~irq_enabled
       => /\ \A set \in PinSetInputs :
                 (PinSetNew(set) /\ stack' = stack /\ pinsets' = pinsets)
                 => avail' = avail
          /\ (PinSetNewUndo /\ stack' = Pop)
             => /\ avail' = Top.pre
                /\ \A pin \in PinInputs : SumHeld(stack, 1, pin)' = 0]_vars

\* C6: a Pin::new that returns None leaves the six masks as they were.
C6_FailedPinNew ==
    [][\A pin \in PinInputs :
           (PinNew(pin) /\ pins' = pins) => avail' = avail]_vars

\* C7: a bit that is 0 in the initial table is 0 in every reachable state,
\* and no live Pin, PinSet or Port covers its pin.
C7_AbsentNeverOwned ==
    /\ \A port_index \in 0..5 :
           BitAnd(avail[port_index], AbsentMask(port_index)) = 0
    /\ \A pin \in PinInputs : ~Present(pin) => Owners(pin) = 0
    /\ \A port \in PortInputs :
           ports[port] > 0
           => BitAnd(required_pins(port),
                     AbsentMask(get_16_bit_port_index(port))) = 0

\* C25: a Pin::new that returns Some clears the pin's bit of its port's mask
\* and leaves every other bit of that mask and the other ports' masks alone.
C25_PinNewClearsOneBit ==
    [][\A pin \in PinInputs :
           (pins'[pin] = pins[pin] + 1 /\ PinNew(pin))
           => avail' = [avail EXCEPT
                           ![extract_port_number(pin)] =
                               BitAnd(@, BitNot16(pin_mask(pin)))]]_vars

\* C26: Port::new returns Some exactly when every bit of the port's required
\* mask was set at its fetch_and, and those bits are clear when it has; a
\* port with a pin the package lacks is never allocated.
C26_PortNewAllRequired ==
    /\ [][\A port \in PortInputs :
              PortNew(port)
              => LET port_index == get_16_bit_port_index(port)
                     was_set == BitAnd(avail[port_index], required_pins(port))
                                    = required_pins(port)
                 IN  /\ ports'[port] = ports[port] + 1 <=> was_set
                     /\ was_set
                        => BitAnd(avail'[port_index], required_pins(port)) = 0]_vars
    /\ [](\A port \in PortInputs :
              BitAnd(required_pins(port),
                     AbsentMask(get_16_bit_port_index(port))) # 0
              => ports[port] = 0)

(***************************************************************************)
(* The port-in-use token and the operations of a GpioPin.  Each is one     *)
(* step; the pins and the tokens are shared by the main thread and the     *)
(* interrupt handlers, which run these steps in any order.                 *)
(***************************************************************************)

\* After a get_port_in_use_token for the mask that returned Some (some) or
\* None: "denied" is a None while the mask's token is alive.
TokAttempt(t, mask, some) ==
    [t EXCEPT ![mask] = IF @ = "freed"
                        THEN (IF some THEN "reacquired" ELSE "refused")
                        ELSE IF ~some /\ tokens[mask] > 0 THEN "denied"
                        ELSE "no"]

\* GpioPin::get_port_in_use_token.
GetPortInUseToken(gp) ==
    /\ LET mask == port_in_use_mask(gp)
           previous_value == in_use_lock
           some == get_port_in_use_token_some(previous_value, mask)
       IN  /\ in_use_lock' = get_port_in_use_token_store(previous_value, mask)
           /\ tokens' = IF some THEN [tokens EXCEPT ![mask] = @ + 1] ELSE tokens
           /\ tok' = TokAttempt(tok, mask, some)
    /\ UNCHANGED <<notgpio, config, regs>>

\* GpioPortBus::get_port_in_use_token: always Some, nothing is locked.
BusGetPortInUseToken ==
    /\ tokens[BUS_FREE_MASK] < MaxBusTokens
    /\ tokens' = [tokens EXCEPT ![BUS_FREE_MASK] = @ + 1]
    /\ UNCHANGED <<notgpio, in_use_lock, config, regs, tok>>

\* Drop for GpioPortInUseToken.
TokenDrop(free_mask) ==
    /\ tokens[free_mask] > 0
    /\ in_use_lock' = token_drop_store(in_use_lock, free_mask)
    /\ tokens' = [tokens EXCEPT ![free_mask] = @ - 1]
    /\ tok' = [m \in PinMasks |->
                 IF m = free_mask
                 THEN (IF tokens'[m] = 0 THEN "freed" ELSE "no")
                 ELSE tok[m]]
    /\ UNCHANGED <<notgpio, config, regs>>

\* A safe operation takes &mut GpioPortInUseToken: the caller passes a live
\* token, whichever it has.
LiveToken(free_mask) == tokens[free_mask] > 0

\* GpioPinOutput::set(&mut self, token).
GpioSet(gp, free_mask) ==
    /\ LiveToken(free_mask)
    /\ config[gp] \in GpioOutConfig
    /\ regs' = [regs EXCEPT ![gp] = set_no_sync(config[gp], @)]
    /\ UNCHANGED <<notgpio, in_use_lock, tokens, config, tok>>

\* GpioPinOutput::clear(&mut self, token).
GpioClear(gp, free_mask) ==
    /\ LiveToken(free_mask)
    /\ config[gp] \in GpioOutConfig
    /\ regs' = [regs EXCEPT ![gp] = clear_no_sync(config[gp], @)]
    /\ UNCHANGED <<notgpio, in_use_lock, tokens, config, tok>>

\* GpioPinOutput::toggle(&mut self, token).
GpioToggle(gp, free_mask) ==
    /\ LiveToken(free_mask)
    /\ config[gp] \in GpioOutConfig
    /\ \E input \in InputLevels(regs[gp]) :
           regs' = [regs EXCEPT ![gp] = toggle_no_sync(config[gp], @, input)]
    /\ UNCHANGED <<notgpio, in_use_lock, tokens, config, tok>>

\* GpioPin::to_input_highz(self, token).
ToInputHighZ(gp, free_mask) ==
    /\ LiveToken(free_mask)
    /\ regs' = [regs EXCEPT ![gp] = to_input_highz_no_sync(@)]
    /\ config' = [config EXCEPT ![gp] = HighImpedance]
    /\ UNCHANGED <<notgpio, in_use_lock, tokens, tok>>

\* GpioPin::to_input_pullup(self, token).
ToInputPullUp(gp, free_mask) ==
    /\ LiveToken(free_mask)
    /\ regs' = [regs EXCEPT ![gp] = to_input_pullup_no_sync(@)]
    /\ config' = [config EXCEPT ![gp] = PullUp]
    /\ UNCHANGED <<notgpio, in_use_lock, tokens, tok>>

\* GpioPin::to_input_pulldown(self, token).
ToInputPullDown(gp, free_mask) ==
    /\ LiveToken(free_mask)
    /\ regs' = [regs EXCEPT ![gp] = to_input_pulldown_no_sync(@)]
    /\ config' = [config EXCEPT ![gp] = PullDown]
    /\ UNCHANGED <<notgpio, in_use_lock, tokens, tok>>

\* GpioPin::to_output_pushpull(self, token).
ToOutputPushPull(gp, free_mask) ==
    /\ LiveToken(free_mask)
    /\ regs' = [regs EXCEPT ![gp] = to_output_pushpull_no_sync(@)]
    /\ config' = [config EXCEPT ![gp] = PushPull]
    /\ UNCHANGED <<notgpio, in_use_lock, tokens, tok>>

\* GpioPin::to_output_opencollector(self, token).
ToOutputOpenCollector(gp, free_mask) ==
    /\ LiveToken(free_mask)
    /\ regs' = [regs EXCEPT ![gp] = to_output_opencollector_no_sync(@)]
    /\ config' = [config EXCEPT ![gp] = OpenCollector]
    /\ UNCHANGED <<notgpio, in_use_lock, tokens, tok>>

\* A safe operation of the pin run with the token.
SafeOperation(gp, free_mask) ==
    \/ GpioSet(gp, free_mask)
    \/ GpioClear(gp, free_mask)
    \/ GpioToggle(gp, free_mask)
    \/ ToInputHighZ(gp, free_mask)
    \/ ToInputPullUp(gp, free_mask)
    \/ ToInputPullDown(gp, free_mask)
    \/ ToOutputPushPull(gp, free_mask)
    \/ ToOutputOpenCollector(gp, free_mask)

\* The pins of the GpioPins are allocated, one Pin::new after the other.
RECURSIVE AllocateAll(_, _)
AllocateAll(table, S) ==
    IF S = {} THEN table
    ELSE LET pin == CHOOSE y \in S : \A z \in S : y <= z
             port == extract_port_number(pin)
         IN  AllocateAll([table EXCEPT ![port] = Pin_new_store(@, pin)],
                         S \ {pin})

GpioSpecInit ==
    /\ package = "lqfp"
    /\ irq_enabled = TRUE
    /\ avail = AllocateAll(PORT_PINS_AVAILABLE(package), GpioPinInputs)
    /\ pins = [p \in PinInputs |-> IF p \in GpioPinInputs THEN 1 ELSE 0]
    /\ ports = [p \in PortInputs |-> 0]
    /\ pinsets = [ps \in PinSetInputs |-> 0]
    /\ stack = <<>>
    /\ rel = [p \in PinInputs |-> "no"]
    /\ GpioInit
    /\ RegIdle
    /\ FnIdle

GpioNext ==
    \/ \E gp \in GpioPinInputs : GetPortInUseToken(gp)
    \/ BusGetPortInUseToken
    \/ \E free_mask \in TokenMasks : TokenDrop(free_mask)
    \/ \E gp \in GpioPinInputs, free_mask \in TokenMasks : GpioSet(gp, free_mask)
    \/ \E gp \in GpioPinInputs, free_mask \in TokenMasks : GpioClear(gp, free_mask)
    \/ \E gp \in GpioPinInputs, free_mask \in TokenMasks : GpioToggle(gp, free_mask)
    \/ \E gp \in GpioPinInputs, free_mask \in TokenMasks : ToInputHighZ(gp, free_mask)
    \/ \E gp \in GpioPinInputs, free_mask \in TokenMasks : ToInputPullUp(gp, free_mask)
    \/ \E gp \in GpioPinInputs, free_mask \in TokenMasks : ToInputPullDown(gp, free_mask)
    \/ \E gp \in GpioPinInputs, free_mask \in TokenMasks : ToOutputPushPull(gp, free_mask)
    \/ \E gp \in GpioPinInputs, free_mask \in TokenMasks :
           ToOutputOpenCollector(gp, free_mask)

GpioSpec == GpioSpecInit /\ [][GpioNext]_vars

\* C34: a get_port_in_use_token that returns None leaves the in-use mask as
\* it was and makes no token; the bit of a live token stays set until that
\* token is dropped.
C34_FailedAttemptKeepsMask ==
    /\ [][\A gp \in GpioPinInputs :
              (tokens' = tokens /\ GetPortInUseToken(gp))
              => in_use_lock' = in_use_lock]_vars
    /\ [](\A mask \in PinMasks :
              tokens[mask] > 0 => BitAnd(in_use_lock, mask) = mask)

\* C34's case: both 8-bit ports are held and a further attempt on one of
\* them has been refused.
C34_RefusedWhileBothHeld ==
    /\ \A mask \in PinMasks : tokens[mask] = 1
    /\ \E mask \in PinMasks : tok[mask] = "denied"
    /\ in_use_lock = 3

\* C24: a port bus obtains its token whatever the in-use mask holds, and
\* neither obtaining the token nor dropping it changes a bit of the mask.
C24_BusTokenNoOp ==
    /\ [](tokens[BUS_FREE_MASK] < MaxBusTokens => ENABLED BusGetPortInUseToken)
    /\ [][(tokens'[BUS_FREE_MASK] # tokens[BUS_FREE_MASK]
           /\ (BusGetPortInUseToken \/ TokenDrop(BUS_FREE_MASK)))
          => in_use_lock' = in_use_lock]_vars

\* A bus holds its token while a pin's token holds its port's bit of the
\* mask, and a second pin of that port has been refused.
C24_BusTokenWhileLocked ==
    /\ tokens[BUS_FREE_MASK] > 0
    /\ \E mask \in PinMasks :
           /\ tokens[mask] > 0 /\ tok[mask] = "denied"
           /\ BitAnd(in_use_lock, mask) = mask

(***************************************************************************)
(* Properties of the port-in-use token.                                    *)
(***************************************************************************)

\* C8: for every half-port at most one token obtained through a GpioPin is
\* alive, and a get_port_in_use_token made while the half-port's token is
\* alive, a nested call of the same pin included, returns None.
C8_TokenMutualExclusion ==
    [][/\ \A m \in PinMasks : tokens[m] <= 1 /\ tokens'[m] <= 1
       /\ \A gp \in GpioPinInputs :
              (GetPortInUseToken(gp) /\ tokens[port_in_use_mask(gp)] > 0)
              => tokens' = tokens]_vars

\* C8's case: a get_port_in_use_token was made while the half-port's token
\* was alive, and the token is still the only one.
C8_Denied ==
    \E m \in PinMasks : tok[m] = "denied" /\ tokens[m] = 1

\* C9: the drop of a token clears the bits of its free_mask in the lock and
\* no other bit, and the next get_port_in_use_token for the half-port is
\* never refused.
C9_TokenRelease ==
    [][/\ \A free_mask \in TokenMasks :
              TokenDrop(free_mask)
              => /\ BitAnd(in_use_lock', free_mask) = 0
                 /\ BitAnd(in_use_lock', BitNot16(free_mask))
                    = BitAnd(in_use_lock, BitNot16(free_mask))
       /\ \A m \in PinMasks : tok'[m] # "refused"]_vars

\* C9's case: a half-port's token was obtained right after the drop of the
\* previous one, while the other half-port's token was alive.
C9_Reacquired ==
    \E m \in PinMasks :
        /\ tok[m] = "reacquired"
        /\ \E o \in PinMasks \ {m} : tokens[o] = 1

\* C10: a safe operation of a GpioPin runs only with a token that holds the
\* in-use bit of the pin's own 8-bit port.
C10_OwnPortToken ==
    [][\A gp \in GpioPinInputs, free_mask \in TokenMasks :
           SafeOperation(gp, free_mask)
           => BitAnd(free_mask, port_in_use_mask(gp)) = port_in_use_mask(gp)]_vars

(***************************************************************************)
(* The operations of a GPIO device, one register write per step, in        *)
(* program order.                                                          *)
(***************************************************************************)

\* The device's bit of a register, for a GpioPin.
DevBit(h, reg) == IF BitAnd(h[reg], dev.mask) # 0 THEN 1 ELSE 0

\* A transition that only an input or a Disabled device offers.
RegTransitionOfInput(target) ==
    /\ pending = <<>>
    /\ dev.mode \notin GpioOutConfig
    /\ dev' = [dev EXCEPT !.from = dev.mode, !.to = target, !.op = "to",
                          !.written = <<>>]
    /\ pending' = TransitionWrites(target)
    /\ UNCHANGED <<notreg, hw>>

\* to_input_highz .. to_output_opencollector: the call.
RegTransition(target) ==
    /\ pending = <<>>
    /\ dev' = [dev EXCEPT !.from = dev.mode, !.to = target, !.op = "to",
                          !.written = <<>>]
    /\ pending' = TransitionWrites(target)
    /\ UNCHANGED <<notreg, hw>>

\* set, clear, toggle of a GpioPin configured as an output: the call, and
\* for toggle the read of the output bit or of the input register.
RegOutput(op) ==
    /\ pending = <<>>
    /\ dev.kind = "GpioPin"
    /\ dev.mode \in GpioOutConfig
    /\ \E input \in InputLevels([direction |-> DevBit(hw, "direction"),
                                 output |-> DevBit(hw, "output")]) :
           /\ dev' = [dev EXCEPT
                         !.from = dev.mode, !.to = dev.mode, !.op = op,
                         !.written = <<>>,
                         !.input = IF op = "toggle" /\ dev.mode = OpenCollector
                                   THEN input ELSE @]
           /\ pending' =
                  CASE op = "set" -> set_writes(dev.mode)
                    [] op = "clear" -> clear_writes(dev.mode)
                    [] op = "toggle" ->
                           toggle_writes(dev.mode, DevBit(hw, "output"), input)
    /\ UNCHANGED <<notreg, hw>>

\* The next statement of the running operation; after the last one the
\* operation returns the device in its new configuration.
RegWrite ==
    /\ pending # <<>>
    /\ LET w == Head(pending)
       IN  /\ hw' = IF w.reg = "fence"
                    THEN hw
                    ELSE [hw EXCEPT ![w.reg] = write_reg(dev, @, w.level)]
           /\ dev' = [dev EXCEPT !.written = Append(@, w),
                                 !.mode = IF Tail(pending) = <<>>
                                          THEN dev.to ELSE @]
    /\ pending' = Tail(pending)
    /\ UNCHANGED notreg

\* A device as its constructor returns it, the registers as they were left.
RegSpecInit ==
    /\ package = "lqfp"
    /\ irq_enabled = TRUE
    /\ avail = PORT_PINS_AVAILABLE(package)
    /\ pins = [p \in PinInputs |-> 0]
    /\ ports = [p \in PortInputs |-> 0]
    /\ pinsets = [ps \in PinSetInputs |-> 0]
    /\ stack = <<>>
    /\ rel = [p \in PinInputs |-> "no"]
    /\ GpioInit
    /\ hw \in [RegNames -> RegInputs]
    /\ \E d \in RegDevices :
           dev = [kind |-> d.kind, mask |-> d.mask,
                  mode |-> Disabled, from |-> Disabled, to |-> Disabled,
                  op |-> "new", written |-> <<>>, input |-> 0]
    /\ pending = <<>>
    /\ FnIdle

RegNext ==
    \/ \E target \in GpioConfig \ {Disabled} : RegTransition(target)
    \/ \E op \in {"set", "clear", "toggle"} : RegOutput(op)
    \/ RegWrite

RegSpec == RegSpecInit /\ [][RegNext]_vars

(***************************************************************************)
(* Properties of the GPIO configurations.                                  *)
(***************************************************************************)

\* Whether direction d, resistor_enable r and output o are a configuration
\* of the mode.
ValidConfig(mode, d, r, o) ==
    CASE mode = HighImpedance -> d = 0 /\ r = 0
      [] mode = PullUp -> d = 0 /\ r = 1 /\ o = 1
      [] mode = PullDown -> d = 0 /\ r = 1 /\ o = 0
      [] mode = PushPull -> d = 1
      [] mode = OpenCollector -> (d = 1 /\ o = 0) \/ (d = 0 /\ o = 1)
      [] OTHER -> TRUE

\* Whether the registers h hold a configuration of the mode on the pin's bit.
PinValid(mode, h) ==
    ValidConfig(mode, DevBit(h, "direction"), DevBit(h, "resistor_enable"),
                DevBit(h, "output"))

\* C11: after each register write of a GpioPin's to_* transition out of a
\* mode other than Disabled, the pin's direction, resistor_enable and output
\* bits are a configuration of the mode it leaves or of the mode it enters.
C11_NoInvalidInBetween ==
    [][(RegWrite /\ dev.kind = "GpioPin" /\ dev.op = "to"
        /\ dev.from # Disabled /\ PinValid(dev.from, hw))
       => (PinValid(dev.from, hw') \/ PinValid(dev.to, hw'))]_vars

\* The level a transition into the mode leaves in the register: 0, 1, or 2
\* when it does not write the register.
TargetLevel(mode, reg) ==
    CASE mode = HighImpedance ->
             (IF reg = "output" THEN 2 ELSE 0)
      [] mode = PullUp ->
             (IF reg = "direction" THEN 0 ELSE 1)
      [] mode = PullDown ->
             (IF reg = "resistor_enable" THEN 1 ELSE 0)
      [] mode = PushPull ->
             (IF reg = "direction" THEN 1 ELSE IF reg = "output" THEN 0 ELSE 2)
      [] mode = OpenCollector ->
             (IF reg = "output" THEN 0 ELSE 1)

\* C12: when a to_* transition of a GpioPin or a GpioPortBus returns, the
\* pin's bit, or all 16 bits of the port, of every register the target mode
\* fixes hold the target mode's level, whatever the mode and the registers
\* were before.
C12_TargetOnly ==
    [][(RegWrite /\ pending' = <<>> /\ dev.op = "to"
        /\ dev.kind \in {"GpioPin", "GpioPortBus"})
       => \A reg \in RegNames :
              /\ TargetLevel(dev.to, reg) = 1
                 => BitAnd(hw'[reg], dev.mask) = dev.mask
              /\ TargetLevel(dev.to, reg) = 0
                 => BitAnd(hw'[reg], dev.mask) = 0]_vars

\* C12's case: a port bus has gone from pull-up input, whose output bits
\* were all set, to pull-down input.
C12_Reconfigured ==
    /\ dev.kind = "GpioPortBus" /\ dev.op = "to" /\ pending = <<>>
    /\ dev.from = PullUp /\ dev.mode = PullDown
    /\ hw["output"] = 0

\* The bits of the pins a PortSection of size pins at the offset is made of.
section_pins(size, offset) == ((2 ^ size - 1) * 2 ^ offset) % U16

\* The bits of the pins the device owns.
DevPins(d) ==
    CASE d.kind = "GpioPin" -> d.mask
      [] d.kind = "GpioPortBus" -> ALL_PINS_MASK
      [] d.kind = "GpioSectionBus" -> section_pins(4, 4)

\* Whether the operation has written the level to the register so far.
Written(reg, level) ==
    \E i \in 1..Len(dev.written) : dev.written[i] = W(reg, level)

\* The pins of the device that drive a high level under the registers h.
DrivenHigh(h) == BitAnd(BitAnd(h["direction"], h["output"]), DevPins(dev))

\* C13: in to_output_pushpull and to_output_opencollector of a pin, a port
\* bus and a section bus the output is written 0 before the direction is set
\* to output, and after each write of the transition no pin of the device has
\* direction 1 and output 1.
C13_GlitchFree ==
    [][(RegWrite /\ dev.op = "to" /\ dev.to \in GpioOutConfig)
       => /\ Head(pending) = W("direction", 1) => Written("output", 0)
          /\ DrivenHigh(hw') = 0]_vars

\* The part of C13 that holds: the same over the bits the transition writes,
\* which for the section bus are those of get_mask.
GlitchFreeOnMask ==
    [][(RegWrite /\ dev.op = "to" /\ dev.to \in GpioOutConfig)
       => /\ Head(pending) = W("direction", 1) => Written("output", 0)
          /\ BitAnd(BitAnd(hw'["direction"], hw'["output"]), dev.mask) = 0]_vars

\* C14: from the return of to_output_opencollector on, through every set,
\* clear and toggle of the open-collector GpioPin and between their writes,
\* the pin never has direction 1 and output 1.
C14_NeverDrivesHigh ==
    (dev.kind = "GpioPin" /\ dev.mode = OpenCollector /\ dev.to = OpenCollector)
        => DrivenHigh(hw) = 0

\* C14's case: the open-collector pin between the two writes of a set that
\* releases a line it was driving low.
C14_Releasing ==
    /\ dev.kind = "GpioPin" /\ dev.mode = OpenCollector /\ dev.op = "set"
    /\ dev.written = <<W("direction", 0)>>
    /\ DevBit(hw, "output") = 0

\* C15: an open-collector set writes direction 0, then a fence, then output
\* 1, and ends with direction 0 and output 1; an open-collector clear writes
\* output 0, then a fence, then direction 1, and ends with direction 1 and
\* output 0; both whatever the pin's state was before.
C15_WriteOrdering ==
    [][(RegWrite /\ pending' = <<>> /\ dev.kind = "GpioPin"
        /\ dev.mode = OpenCollector)
       => /\ dev.op = "set"
             => /\ dev'.written = <<W("direction", 0), Fence, W("output", 1)>>
                /\ DevBit(hw', "direction") = 0
                /\ DevBit(hw', "output") = 1
          /\ dev.op = "clear"
             => /\ dev'.written = <<W("output", 0), Fence, W("direction", 1)>>
                /\ DevBit(hw', "direction") = 1
                /\ DevBit(hw', "output") = 0]_vars

\* C15's case: a clear of a released open-collector pin has returned.
C15_Cleared ==
    /\ dev.kind = "GpioPin" /\ dev.mode = OpenCollector /\ dev.op = "clear"
    /\ pending = <<>>
    /\ dev.written[1] = W("output", 0)
    /\ DevBit(hw, "direction") = 1

\* C27: a toggle of an open-collector GpioPin reads the input bit once; when
\* it read 0 its writes are those of set (direction 0, fence, output 1) and
\* it ends with direction 0 and output 1, otherwise they are those of clear
\* (output 0, fence, direction 1) and it ends with direction 1 and output 0.
C27_ToggleIsSetOrClear ==
    [][(RegWrite /\ pending' = <<>> /\ dev.kind = "GpioPin"
        /\ dev.mode = OpenCollector /\ dev.op = "toggle")
       => /\ dev.input = 0
             => /\ dev'.written = <<W("direction", 0), Fence, W("output", 1)>>
                /\ DevBit(hw', "direction") = 0
                /\ DevBit(hw', "output") = 1
          /\ dev.input # 0
             => /\ dev'.written = <<W("output", 0), Fence, W("direction", 1)>>
                /\ DevBit(hw', "direction") = 1
                /\ DevBit(hw', "output") = 0]_vars

\* C27's case: a toggle of a released open-collector pin read a high line
\* and has returned with the pin driving low.
C27_ToggledLow ==
    /\ dev.kind = "GpioPin" /\ dev.mode = OpenCollector /\ dev.op = "toggle"
    /\ pending = <<>>
    /\ dev.input = 1
    /\ dev.written[3] = W("direction", 1)
    /\ DevBit(hw, "output") = 0

\* C28: on a push-pull GpioPin set ends with the output bit 1, clear with
\* 0, toggle with the inverse of what it was; each is one write that leaves
\* direction, resistor_enable and the other pins' output bits as they were,
\* so that a set of a set pin and a clear of a cleared pin change nothing
\* and a second toggle restores what the first inverted.
C28_PushPullOutput ==
    [][(RegWrite /\ dev.kind = "GpioPin" /\ dev.mode = PushPull
        /\ dev.op \in {"set", "clear", "toggle"})
       => /\ pending' = <<>>
          /\ DevBit(hw', "output")
                 = CASE dev.op = "set" -> 1
                     [] dev.op = "clear" -> 0
                     [] dev.op = "toggle" -> 1 - DevBit(hw, "output")
          /\ hw'["direction"] = hw["direction"]
          /\ hw'["resistor_enable"] = hw["resistor_enable"]
          /\ BitAnd(hw'["output"], BitNot16(dev.mask))
                 = BitAnd(hw["output"], BitNot16(dev.mask))]_vars

\* C28's case: a toggle of a push-pull pin whose output was 1 has returned,
\* the other pins of the port holding a mixed pattern.
C28_ToggledFromHigh ==
    /\ dev.kind = "GpioPin" /\ dev.mode = PushPull /\ dev.op = "toggle"
    /\ pending = <<>>
    /\ dev.written = <<W("output", 0)>>
    /\ BitAnd(hw["output"], BitNot16(dev.mask)) \notin {0, BitNot16(dev.mask)}

\* C20: a GpioPin is Disabled only from gpio_pin_new until its first
\* transition returns, no step takes it from another mode back to Disabled,
\* and whenever no operation is running each of the five to_* transitions
\* can be called, whatever the mode.
C20_ModeLattice ==
    [][dev.kind = "GpioPin"
       => /\ dev.mode = Disabled
             => (dev.op = "new" \/ (dev.op = "to" /\ pending # <<>>))
          /\ dev.mode # Disabled => dev'.mode # Disabled
          /\ pending = <<>>
             => \A target \in GpioConfig \ {Disabled} :
                    ENABLED RegTransition(target)]_vars

\* C20's case: the pin has gone from an output mode back to an input mode.
C20_OutputToInput ==
    /\ dev.kind = "GpioPin" /\ dev.op = "to" /\ pending = <<>>
    /\ dev.from = OpenCollector /\ dev.mode = HighImpedance

(***************************************************************************)
(* The conversions of pin names.                                           *)
(***************************************************************************)

\* The name the next conversion is called on: the one the last returned.
PinNameHeld == IF pin_last = NoCall THEN pin_arg ELSE pin_last.ret

\* PinName::to_8_bit or PinName::to_16_bit, called on the name held.
PinNameConvert(fn) ==
    /\ pin_prev' = pin_last
    /\ pin_last' = PinNameCall(fn, PinNameHeld)
    /\ UNCHANGED <<notname, pin_arg>>

\* A caller holding any of the pin names.
NameSpecInit ==
    /\ package = "lqfp"
    /\ irq_enabled = TRUE
    /\ avail = PORT_PINS_AVAILABLE(package)
    /\ pins = [p \in PinInputs |-> 0]
    /\ ports = [p \in PortInputs |-> 0]
    /\ pinsets = [ps \in PinSetInputs |-> 0]
    /\ stack = <<>>
    /\ rel = [p \in PinInputs |-> "no"]
    /\ GpioInit
    /\ RegIdle
    /\ pin_arg \in PinNames
    /\ pin_prev = NoCall /\ pin_last = NoCall
    /\ alias_prev = NoCall /\ alias_last = NoCall
    /\ SelIdle
    /\ McuIdle
    /\ LibIdle

NameNext ==
    \/ PinNameConvert("to_8_bit")
    \/ PinNameConvert("to_16_bit")

NameSpec == NameSpecInit /\ [][NameNext]_vars

\* C16: converting a 16-bit pin name to 8-bit and back gives the name again,
\* and so does converting an 8-bit name to 16-bit and back; for any pin name
\* a conversion after the opposite one gives what the conversion alone gives.
C16_RoundTrip ==
    (pin_prev # NoCall /\ pin_last # NoCall)
        => LET r == pin_prev.self
           IN  /\ (pin_prev.fn = "to_8_bit" /\ pin_last.fn = "to_16_bit")
                  => /\ r \in PinNames16 => pin_last.ret = r
                     /\ pin_last.ret = PinName_to_16_bit(r)
               /\ (pin_prev.fn = "to_16_bit" /\ pin_last.fn = "to_8_bit")
                  => /\ r \in PinNames8 => pin_last.ret = r
                     /\ pin_last.ret = PinName_to_8_bit(r)

\* C16's case: a pin of the upper half of a 16-bit port went to 8-bit and
\* back.
C16_UpperHalfBack ==
    /\ pin_prev # NoCall /\ pin_last # NoCall
    /\ pin_prev.fn = "to_8_bit" /\ pin_last.fn = "to_16_bit"
    /\ pin_prev.self = PinName(PORTE, 12)
    /\ pin_last.self = PinName(PortName(9, Port8Bit), 4)

\* C17: to_8_bit takes the pin at offset o of 16-bit port n to offset o of
\* 8-bit port 2n when o < 8 and to offset o - 8 of port 2n + 1 otherwise;
\* to_16_bit takes the pin at offset o of 8-bit port m to offset
\* o + 8 * (m mod 2) of 16-bit port m div 2; each returns a name already of
\* its size as it is; the offset returned is below 8, and below 16.
C17_Conversion ==
    pin_last # NoCall
        => LET n == pin_last.self.port_name.number
               o == pin_last.self.pin_offset
               size == pin_last.self.port_name.size
           IN  /\ pin_last.fn = "to_8_bit"
                  => /\ pin_last.ret.pin_offset < 8
                     /\ size = Port8Bit => pin_last.ret = pin_last.self
                     /\ (size = Port16Bit /\ o < 8)
                        => pin_last.ret =
                               [port_name |-> [number |-> 2 * n, size |-> Port8Bit],
                                pin_offset |-> o]
                     /\ (size = Port16Bit /\ o >= 8)
                        => pin_last.ret =
                               [port_name |-> [number |-> 2 * n + 1,
                                               size |-> Port8Bit],
                                pin_offset |-> o - 8]
               /\ pin_last.fn = "to_16_bit"
                  => /\ pin_last.ret.pin_offset < 16
                     /\ size = Port16Bit => pin_last.ret = pin_last.self
                     /\ size = Port8Bit
                        => pin_last.ret =
                               [port_name |-> [number |-> n \div 2,
                                               size |-> Port16Bit],
                                pin_offset |-> o + 8 * (n % 2)]

\* C17's case: to_8_bit was called on the last pin of 16-bit port E.
C17_UpperHalfTo8Bit ==
    /\ pin_last # NoCall
    /\ pin_last.fn = "to_8_bit"
    /\ pin_last.self = PinName(PORTE, 15)
    /\ pin_last.ret.port_name.number = 9

(***************************************************************************)
(* The bit-band alias.                                                     *)
(***************************************************************************)

\* peripheral_to_bitband_alias, called on a byte address and a bit.
PeripheralToBitbandAlias(address, bit) ==
    /\ alias_prev' = alias_last
    /\ alias_last' = AliasCall(address, bit)
    /\ UNCHANGED notalias

AliasSpecInit ==
    /\ package = "lqfp"
    /\ irq_enabled = TRUE
    /\ avail = PORT_PINS_AVAILABLE(package)
    /\ pins = [p \in PinInputs |-> 0]
    /\ ports = [p \in PortInputs |-> 0]
    /\ pinsets = [ps \in PinSetInputs |-> 0]
    /\ stack = <<>>
    /\ rel = [p \in PinInputs |-> "no"]
    /\ GpioInit
    /\ RegIdle
    /\ FnIdle

AliasNext ==
    \E address \in AliasAddresses, bit \in AliasBits :
        PeripheralToBitbandAlias(address, bit)

AliasSpec == AliasSpecInit /\ [][AliasNext]_vars

\* C18: the alias of bit b of the byte at address A is
\* 0x4200_0000 + (A - 0x4000_0000) * 32 + b * 4, and two different pairs of
\* a byte address of the peripheral window and a bit 0 to 7 have different
\* aliases.
C18_BitBandAlias ==
    /\ \A c \in {alias_prev, alias_last} :
           c # NoCall
               => c.ret = 1107296256 + (c.address - 1073741824) * 32 + c.bit * 4
    /\ (/\ alias_prev # NoCall /\ alias_last # NoCall
        /\ alias_prev.bit <= 7 /\ alias_last.bit <= 7
        /\ <<alias_prev.address, alias_prev.bit>>
               # <<alias_last.address, alias_last.bit>>)
       => alias_prev.ret # alias_last.ret

\* C18's case: the aliases of the last bit of a byte and of the first bit of
\* the next byte were computed.
C18_NeighbouringBytes ==
    /\ alias_prev # NoCall /\ alias_last # NoCall
    /\ alias_prev.address = PERIPHERAL_BASE + 19458 /\ alias_prev.bit = 7
    /\ alias_last.address = PERIPHERAL_BASE + 19459 /\ alias_last.bit = 0
    /\ alias_last.ret = alias_prev.ret + 4

\* C35 as stated: for every address of the peripheral window and every bit
\* 0 to 31 the alias lies in the bit-band window and no step of its
\* computation leaves the range of a u32.
C35_AliasInWindow ==
    \A c \in {alias_prev, alias_last} :
        c # NoCall
            => /\ (c.address - PERIPHERAL_BASE) * 32 + c.bit * 4 <= 2147483647
               /\ c.ret >= PERIPHERAL_BITBAND_BASE
               /\ c.ret <= PERIPHERAL_BITBAND_END

\* C35, amended: the computation never leaves the range of a u32, and the
\* alias lies in the bit-band window when the byte that holds the bit,
\* address + bit div 8, lies in the peripheral window.
C35_AliasOfByteInWindow ==
    \A c \in {alias_prev, alias_last} :
        c # NoCall
            => /\ (c.address - PERIPHERAL_BASE) * 32 + c.bit * 4 <= 2147483647
               /\ c.ret <= 2147483647
               /\ c.address + c.bit \div 8 <= PERIPHERAL_END
                  => /\ c.ret >= PERIPHERAL_BITBAND_BASE
                     /\ c.ret <= PERIPHERAL_BITBAND_END

\* C35's case: the alias of the last bit of the last byte of the peripheral
\* window, which is the last word of the bit-band window.
C35_LastBit ==
    /\ alias_last # NoCall
    /\ alias_last.address = PERIPHERAL_END /\ alias_last.bit = 7
    /\ alias_last.ret = PERIPHERAL_BITBAND_END - 3

(***************************************************************************)
(* The allocation calls and get_port_in_use_token, step by step.           *)
(***************************************************************************)

\* The atomic operations the operation of a frame has made so far, and of
\* them the allocations and the releases of a PinSet::new.
Allocations(f) ==
    CASE f.op = "PinSet::new" -> f.i - 1
      [] f.op = "PinSet::undo" -> f.n + 1
      [] OTHER -> 0

Releases(f) == IF f.op = "PinSet::undo" THEN f.i - 1 ELSE 0

AtomicOps(f) ==
    CASE f.op = "Port::new" -> 1
      [] f.op = "PinSet::drop" -> f.i - 1
      [] OTHER -> Allocations(f) + Releases(f)

\* The next step of the allocation call that runs.
TopStep == PortNewRestore \/ PinSetNewAlloc \/ PinSetNewUndo

\* The allocator with preemption on and nothing allocated, no token taken.
AllocationSpecInit ==
    /\ package = "lqfp"
    /\ irq_enabled = TRUE
    /\ avail = PORT_PINS_AVAILABLE(package)
    /\ pins = [p \in PinInputs |-> 0]
    /\ ports = [p \in PortInputs |-> 0]
    /\ pinsets = [ps \in PinSetInputs |-> 0]
    /\ stack = <<>>
    /\ rel = [p \in PinInputs |-> "no"]
    /\ GpioInit
    /\ RegIdle
    /\ FnIdle

\* The allocation calls and their further steps, the drop of a Pin, and the
\* GpioPin of PA_8 asking for its port's token.
AllocationNext ==
    \/ \E pin \in PinInputs : PinNew(pin)
    \/ \E pin \in PinInputs : PinDrop(pin)
    \/ \E port \in PortInputs : PortNew(port)
    \/ PortNewRestore
    \/ \E set \in PinSetInputs : PinSetNew(set)
    \/ PinSetNewAlloc
    \/ PinSetNewUndo
    \/ GetPortInUseToken(PA_8)

AllocationSpec == AllocationSpecInit /\ [][AllocationNext]_vars

\* Whether the operation that runs has returned or has made one more atomic
\* operation.
Advanced ==
    \/ stack' = Pop
    \/ Pop' = Pop /\ AtomicOps(Top') = AtomicOps(Top) + 1

\* C19: Pin::new and get_port_in_use_token return in the step of their one
\* atomic operation; Port::new returns after at most two; PinSet::new after
\* at most COUNT allocations and COUNT releases.  The step of the operation
\* that runs is always enabled, it returns or adds one to the operations
\* made, and the steps of another context leave a preempted operation as it
\* is.
C19_BoundedSteps ==
    /\ [](/\ \A gp \in GpioPinInputs : ENABLED GetPortInUseToken(gp)
          /\ stack # <<>> => ENABLED TopStep
          /\ \A k \in 1..Len(stack) :
                 LET f == stack[k]
                 IN  /\ f.op = "Port::new" => AtomicOps(f) + 1 <= 2
                     /\ f.op = "PinSet::new" => Allocations(f) + 1 <= COUNT
                     /\ f.op = "PinSet::undo"
                        => Allocations(f) <= COUNT /\ Releases(f) + 1 <= COUNT)
    /\ [][/\ stack' # stack
             => /\ ~(\E pin \in PinInputs : PinNew(pin))
                /\ ~(\E gp \in GpioPinInputs : GetPortInUseToken(gp))
          /\ (stack # <<>> /\ ~Advanced) => ~TopStep
          /\ \A k \in 1..(Len(stack) - 1) :
                 Len(stack') >= k /\ stack'[k] = stack[k]
          /\ Len(stack') > Len(stack)
             => Pop' = stack /\ AtomicOps(Top') = 1]_vars

\* C19's case: a PinSet::new that failed at its last pin and has its one pin
\* still to release is preempted by a Port::new that has its restore still
\* to do, while a port-in-use token is held.
C19_PreemptedUndo ==
    /\ Len(stack) = 2
    /\ stack[1].op = "PinSet::undo" /\ Allocations(stack[1]) = COUNT
    /\ stack[2].op = "Port::new"
    /\ in_use_lock # 0
(***************************************************************************)
(* The constructors of the GPIO devices and the function select.           *)
(***************************************************************************)

\* The function select of the pin at the offset: select_1 * 2 + select_0.
PinFunction(s, pin_offset) ==
    Bit(s.select_1, pin_offset) * 2 + Bit(s.select_0, pin_offset)

\* gpio_pin_new(pin) for the pin at the offset.
GpioPinNew(pin_offset) ==
    /\ sel_pending = <<>>
    /\ sel' = set_pin_function_to_gpio(sel, pin_offset)
    /\ sel_call' = [fn |-> "gpio_pin_new", orig |-> sel, pin_offset |-> pin_offset]
    /\ UNCHANGED <<notsel, sel_pending>>

\* GpioSingle::new(pin) for the pin at the offset.
GpioSingleNew(pin_offset) ==
    /\ sel_pending = <<>>
    /\ sel' = single_set_pin_function_to_gpio(sel, pin_offset)
    /\ sel_call' = [fn |-> "GpioSingle::new", orig |-> sel,
                    pin_offset |-> pin_offset]
    /\ UNCHANGED <<notsel, sel_pending>>

\* gpio_port_bus_new(port): the call and the reads of select_0 and select_1.
GpioPortBusNew ==
    /\ sel_pending = <<>>
    /\ sel_pending' = gpio_port_bus_new_stores(sel)
    /\ sel_call' = [fn |-> "gpio_port_bus_new", orig |-> sel, pin_offset |-> 0]
    /\ UNCHANGED <<notsel, sel>>

\* gpio_port_bus_new: its next store; after the last one it returns.
GpioPortBusNewStore ==
    /\ sel_pending # <<>>
    /\ sel' = sel_store(sel, Head(sel_pending).reg, Head(sel_pending).value)
    /\ sel_pending' = Tail(sel_pending)
    /\ UNCHANGED <<notsel, sel_call>>

\* The select registers as an earlier use of the pins left them.
SelSpecInit ==
    /\ package = "lqfp"
    /\ irq_enabled = TRUE
    /\ avail = PORT_PINS_AVAILABLE(package)
    /\ pins = [p \in PinInputs |-> 0]
    /\ ports = [p \in PortInputs |-> 0]
    /\ pinsets = [ps \in PinSetInputs |-> 0]
    /\ stack = <<>>
    /\ rel = [p \in PinInputs |-> "no"]
    /\ GpioInit
    /\ RegIdle
    /\ pin_arg = PinName(PORTA, 0)
    /\ pin_prev = NoCall /\ pin_last = NoCall
    /\ alias_prev = NoCall /\ alias_last = NoCall
    /\ sel \in [{"select_0", "select_1"} -> SelInputs]
    /\ sel_call = [fn |-> "none", orig |-> sel, pin_offset |-> 0]
    /\ sel_pending = <<>>
    /\ McuIdle
    /\ LibIdle

SelNext ==
    \/ \E pin_offset \in SelOffsets : GpioPinNew(pin_offset)
    \/ \E pin_offset \in SelOffsets : GpioSingleNew(pin_offset)
    \/ GpioPortBusNew
    \/ GpioPortBusNewStore

SelSpec == SelSpecInit /\ [][SelNext]_vars

\* C21: after gpio_pin_new, and after GpioSingle::new, has returned, the
\* select_0 bit and the select_1 bit of the pin are both 0, whichever of the
\* four values they had before.
C21_FunctionIsGpio ==
    sel_call.fn \in {"gpio_pin_new", "GpioSingle::new"}
        => PinFunction(sel, sel_call.pin_offset) = 0
\* C30: from the call of gpio_port_bus_new on, after each of its stores,
\* every pin of the port has the function select it had at the call or 0,
\* and when gpio_port_bus_new has returned select_0 and select_1 are 0.
C30_PortBusFunctionIsGpio ==
    sel_call.fn = "gpio_port_bus_new"
        => /\ \A pin_offset \in 0..(NUM_PINS_IN_PORT - 1) :
                  PinFunction(sel, pin_offset)
                      \in {PinFunction(sel_call.orig, pin_offset), 0}
           /\ sel_pending = <<>> => sel = [select_0 |-> 0, select_1 |-> 0]

\* C30's case: gpio_port_bus_new, called on a port whose pins had all four
\* functions, has stored to complement_selection and has two stores to do.
C30_ComplementStored ==
    /\ sel_call.fn = "gpio_port_bus_new"
    /\ sel_call.orig = [select_0 |-> 23130, select_1 |-> 13260]
    /\ Len(sel_pending) = 2
    /\ sel # sel_call.orig
(***************************************************************************)
(* The output operations of a push-pull GpioSectionBus, and another owner  *)
(* of a pin of the same port.                                              *)
(***************************************************************************)

\* The pins of the port that another owner holds as push-pull GpioPins.
OtherPins == {0, 15}

\* write, set_bits, clear_bits, toggle_bits: the call and modify's read.
\* The store still to do carries the closure and the content read.
SectionRead(op, arg) ==
    /\ pending = <<>>
    /\ dev.kind = "GpioSectionBus"
    /\ dev' = [dev EXCEPT !.op = op, !.written = <<>>]
    /\ pending' = <<[reg |-> "output", op |-> op, arg |-> arg,
                     content |-> hw["output"]]>>
    /\ UNCHANGED <<notreg, hw>>

\* modify's write.
SectionStore ==
    /\ pending # <<>>
    /\ LET w == Head(pending)
       IN  hw' = [hw EXCEPT
                     ![w.reg] = section_modified(
                                    w.op, modify_content(w.content, hw[w.reg]),
                                    w.arg, dev.mask, PortSection4.offset)]
    /\ pending' = Tail(pending)
    /\ UNCHANGED <<notreg, dev>>

\* set or clear of the GpioPin of another pin of the port: one store to the
\* bit-band alias of its output bit.  Between the read and the write of a
\* modify it is the step of an interrupt handler; dev.written keeps it.
OtherPinStore(bit, level) ==
    /\ Len(dev.written) < Len(pending) + 1
    /\ hw' = [hw EXCEPT !["output"] = IF level = 1 THEN BitOr(@, 2 ^ bit)
                                      ELSE BitAnd(@, BitNot16(2 ^ bit))]
    /\ dev' = [dev EXCEPT !.written = IF pending = <<>> THEN <<>>
                                      ELSE <<[reg |-> "output", bit |-> bit,
                                              level |-> level]>>]
    /\ UNCHANGED <<notreg, pending>>

\* The section bus as to_output_pushpull returned it.
SectionSpecInit ==
    /\ package = "lqfp"
    /\ irq_enabled = TRUE
    /\ avail = PORT_PINS_AVAILABLE(package)
    /\ pins = [p \in PinInputs |-> 0]
    /\ ports = [p \in PortInputs |-> 0]
    /\ pinsets = [ps \in PinSetInputs |-> 0]
    /\ stack = <<>>
    /\ rel = [p \in PinInputs |-> "no"]
    /\ GpioInit
    /\ FnIdle
    /\ \E r \in RegInputs, d \in RegInputs, o \in RegInputs :
           hw = [resistor_enable |-> r,
                 direction |-> BitOr(d, GpioSectionBusDev.mask),
                 output |-> BitAnd(o, BitNot16(GpioSectionBusDev.mask))]
    /\ dev = [kind |-> GpioSectionBusDev.kind, mask |-> GpioSectionBusDev.mask,
              mode |-> PushPull, from |-> Disabled, to |-> PushPull,
              op |-> "to", written |-> <<>>, input |-> 0]
    /\ pending = <<>>

SectionNext ==
    \/ \E op \in SectionOps, arg \in BusArgs : SectionRead(op, arg)
    \/ SectionStore
    \/ \E bit \in OtherPins, level \in {0, 1} : OtherPinStore(bit, level)

SectionSpec == SectionSpecInit /\ [][SectionNext]_vars

\* C22: when another owner's store to a different pin of the port comes
\* between the read and the write of a section bus operation, the output
\* register after the write holds that store's level in that pin's bit.
C22_NoLostUpdate ==
    [][(SectionStore /\ dev.written # <<>>)
       => Bit(hw'["output"], dev.written[1].bit) = dev.written[1].level]_vars
(***************************************************************************)
(* McuPinSet::get_mcu_pins, called by the main thread and by the interrupt *)
(* handlers that preempt it.                                               *)
(***************************************************************************)

\* The call: a frame above the one it preempts, if any.
GetMcuPins ==
    /\ Len(mcu_stack) + Len(mcu_results) < MaxCalls
    /\ mcu_stack' = Append(mcu_stack, [pc |-> "read", value |-> "None"])
    /\ UNCHANGED <<notmcu, MCU_PINSET, mcu_results>>

\* Option::take of the running call: the read of the static.
McuPinsetRead ==
    /\ mcu_stack # <<>>
    /\ mcu_stack[Len(mcu_stack)].pc = "read"
    /\ mcu_stack' = [mcu_stack EXCEPT
                        ![Len(mcu_stack)] = [pc |-> "write",
                                             value |-> take_value(MCU_PINSET)]]
    /\ UNCHANGED <<notmcu, MCU_PINSET, mcu_results>>

\* Option::take of the running call: the store of None, and the return.
McuPinsetWrite ==
    /\ mcu_stack # <<>>
    /\ mcu_stack[Len(mcu_stack)].pc = "write"
    /\ MCU_PINSET' = "None"
    /\ mcu_results' = Append(mcu_results, mcu_stack[Len(mcu_stack)].value)
    /\ mcu_stack' = SubSeq(mcu_stack, 1, Len(mcu_stack) - 1)
    /\ UNCHANGED notmcu

McuSpecInit ==
    /\ package \in Packages
    /\ irq_enabled = TRUE
    /\ avail = PORT_PINS_AVAILABLE(package)
    /\ pins = [p \in PinInputs |-> 0]
    /\ ports = [p \in PortInputs |-> 0]
    /\ pinsets = [ps \in PinSetInputs |-> 0]
    /\ stack = <<>>
    /\ rel = [p \in PinInputs |-> "no"]
    /\ GpioInit
    /\ RegIdle
    /\ FnIdle

McuNext ==
    \/ GetMcuPins
    \/ McuPinsetRead
    \/ McuPinsetWrite

McuSpec == McuSpecInit /\ [][McuNext]_vars

\* C23: of the calls of get_mcu_pins that have returned, the first returned
\* Some and every other one None, whichever of them preempted which.
C23_AtMostOnce ==
    /\ mcu_results # <<>> => mcu_results[1] = "Some"
    /\ \A i \in 2..Len(mcu_results) : mcu_results[i] = "None"
(***************************************************************************)
(* The output operations of an open-collector GpioPortBus, statement by    *)
(* statement.                                                              *)
(***************************************************************************)

\* write, set_bits, clear_bits, toggle_bits: the call.
PortBusOutput(op, arg) ==
    /\ pending = <<>>
    /\ dev.kind = "GpioPortBus"
    /\ dev.mode = OpenCollector
    /\ dev' = [dev EXCEPT !.from = dev.mode, !.to = dev.mode, !.op = op,
                          !.written = <<>>]
    /\ pending' = CASE op = "write" -> write_no_sync(hw, arg)
                    [] op = "set_bits" -> set_bits_no_sync(hw, arg)
                    [] op = "clear_bits" -> clear_bits_no_sync(hw, arg)
                    [] op = "toggle_bits" -> toggle_bits_no_sync(hw, arg)
    /\ UNCHANGED <<notreg, hw>>

\* The next statement of the running operation.
PortBusStore ==
    /\ pending # <<>>
    /\ LET w == Head(pending)
       IN  hw' = IF w.reg = "fence" THEN hw ELSE [hw EXCEPT ![w.reg] = w.value]
    /\ pending' = Tail(pending)
    /\ UNCHANGED <<notreg, dev>>

\* The port bus as to_output_opencollector returned it.
PortBusSpecInit ==
    /\ package = "lqfp"
    /\ irq_enabled = TRUE
    /\ avail = PORT_PINS_AVAILABLE(package)
    /\ pins = [p \in PinInputs |-> 0]
    /\ ports = [p \in PortInputs |-> 0]
    /\ pinsets = [ps \in PinSetInputs |-> 0]
    /\ stack = <<>>
    /\ rel = [p \in PinInputs |-> "no"]
    /\ GpioInit
    /\ FnIdle
    /\ hw = [resistor_enable |-> ALL_PINS_MASK, direction |-> ALL_PINS_MASK,
             output |-> 0]
    /\ dev = [kind |-> GpioPortBusDev.kind, mask |-> GpioPortBusDev.mask,
              mode |-> OpenCollector, from |-> Disabled, to |-> OpenCollector,
              op |-> "to", written |-> <<>>, input |-> 0]
    /\ pending = <<>>

PortBusNext ==
    \/ \E op \in SectionOps, arg \in PortBusArgs : PortBusOutput(op, arg)
    \/ PortBusStore

PortBusSpec == PortBusSpecInit /\ [][PortBusNext]_vars

\* C29: whenever an open-collector GpioPortBus is between two operations,
\* from the return of to_output_opencollector on, its direction register is
\* the bitwise complement of its output register.
C29_PolarityInvariant ==
    (dev.kind = "GpioPortBus" /\ dev.mode = OpenCollector /\ dev.to = OpenCollector
     /\ pending = <<>>)
        => hw["direction"] = BitNot16(hw["output"])
(***************************************************************************)
(* PortSectionX::get_mask (src/src/pin/port_section.rs).                   *)
(***************************************************************************)

\* get_mask of the section the caller holds.
GetMask ==
    /\ mask_call.fn = "none"
    /\ mask_call' = [mask_call EXCEPT
                        !.fn = "get_mask",
                        !.ret = get_mask(mask_call.size, mask_call.offset)]
    /\ UNCHANGED notmask

\* The section is given back to its pins and another one is made of them.
PortSectionNew(size, offset) ==
    /\ mask_call.fn = "get_mask"
    /\ mask_call' = [fn |-> "none", size |-> size, offset |-> offset, ret |-> 0]
    /\ UNCHANGED notmask

MaskSpecInit ==
    /\ package = "lqfp"
    /\ irq_enabled = TRUE
    /\ avail = PORT_PINS_AVAILABLE(package)
    /\ pins = [p \in PinInputs |-> 0]
    /\ ports = [p \in PortInputs |-> 0]
    /\ pinsets = [ps \in PinSetInputs |-> 0]
    /\ stack = <<>>
    /\ rel = [p \in PinInputs |-> "no"]
    /\ GpioInit
    /\ RegIdle
    /\ pin_arg = PinName(PORTA, 0)
    /\ pin_prev = NoCall /\ pin_last = NoCall
    /\ alias_prev = NoCall /\ alias_last = NoCall
    /\ SelIdle
    /\ McuIdle
    /\ CallsIdle
    /\ \E section \in PortSections :
           mask_call = [fn |-> "none", size |-> section.size,
                        offset |-> section.offset, ret |-> 0]

MaskNext ==
    \/ GetMask
    \/ \E section \in PortSections : PortSectionNew(section.size, section.offset)

MaskSpec == MaskSpecInit /\ [][MaskNext]_vars

\* The bits offset .. offset + size - 1.
SectionBits(size, offset) == (2 ^ size - 1) * 2 ^ offset

\* C31: get_mask of a section of size pins at offset is the mask of the bits
\* offset .. offset + size - 1.
C31_MaskOfSection ==
    mask_call.fn = "get_mask"
        => mask_call.ret = SectionBits(mask_call.size, mask_call.offset)
(***************************************************************************)
(* The in-use mask gpio_pin_new gives each GpioPin.                        *)
(***************************************************************************)

\* gpio_pin_new(pin): the call, and the port_in_use_mask of the GpioPin.
GpioPinNewMask(pin) ==
    /\ gpio_prev' = gpio_last
    /\ gpio_last' = [fn |-> "gpio_pin_new", pin |-> pin,
                     port_in_use_mask |-> port_in_use_mask(pin)]
    /\ UNCHANGED notinuse

InUseSpecInit ==
    /\ package = "lqfp"
    /\ irq_enabled = TRUE
    /\ avail = PORT_PINS_AVAILABLE(package)
    /\ pins = [p \in PinInputs |-> 0]
    /\ ports = [p \in PortInputs |-> 0]
    /\ pinsets = [ps \in PinSetInputs |-> 0]
    /\ stack = <<>>
    /\ rel = [p \in PinInputs |-> "no"]
    /\ GpioInit
    /\ RegIdle
    /\ FnIdle

\* The caller names the pin in 16-bit form or in 8-bit form.
InUseNext ==
    \/ \E pin \in PinNameValues : GpioPinNewMask(pin)
    \/ \E port \in 1..10, offset \in 0..7 : GpioPinNewMask(pin_alias(port, offset))

InUseSpec == InUseSpecInit /\ [][InUseNext]_vars

\* The 8-bit port a pin lies in, numbered from 0.
HalfPort(pin) ==
    2 * extract_port_number(pin) + (IF extract_pin_number(pin) > 7 THEN 1 ELSE 0)

\* C33: the mask of a GpioPin is (2 if the pin's offset in its 16-bit port
\* is above 7, else 1) shifted left by twice the index of the 16-bit port: one
\* bit of the 16-bit lock word; two GpioPins have the same mask exactly when
\* their pins lie in the same 8-bit port, however the pins were named.
C33_OneBitPerHalfPort ==
    /\ gpio_last # NoCall
       => /\ gpio_last.port_in_use_mask
                 = (IF extract_pin_number(gpio_last.pin) > 7 THEN 2 ELSE 1)
                       * 2 ^ (2 * extract_port_number(gpio_last.pin))
          /\ \E b \in 0..(NUM_PINS_IN_PORT - 1) : gpio_last.port_in_use_mask = 2 ^ b
    /\ (gpio_prev # NoCall /\ gpio_last # NoCall)
       => (gpio_prev.port_in_use_mask = gpio_last.port_in_use_mask
              <=> HalfPort(gpio_prev.pin) = HalfPort(gpio_last.pin))

\* C33's case: PJ_5 and then P10_0, the pin PE_8 named in 8-bit form.
C33_UpperHalfByAlias ==
    /\ gpio_prev # NoCall /\ gpio_last # NoCall
    /\ gpio_prev.pin = pin_name(5, 5)
    /\ gpio_last.pin = pin_alias(10, 0)
    /\ gpio_last.port_in_use_mask = 512

(***************************************************************************)
(* PortName::to_8_bit and PortName::to_16_bit (src/src/pin/names.rs).      *)
(***************************************************************************)

\* to_8_bit or to_16_bit, called on a port name.
PortNameConvert(fn, self) ==
    /\ port_prev' = port_last
    /\ port_last' = [fn |-> fn, self |-> self,
                     ret |-> IF fn = "to_8_bit" THEN PortName_to_8_bit(self)
                             ELSE PortName_to_16_bit(self)]
    /\ UNCHANGED notport

PortNameSpecInit ==
    /\ package = "lqfp"
    /\ irq_enabled = TRUE
    /\ avail = PORT_PINS_AVAILABLE(package)
    /\ pins = [p \in PinInputs |-> 0]
    /\ ports = [p \in PortInputs |-> 0]
    /\ pinsets = [ps \in PinSetInputs |-> 0]
    /\ stack = <<>>
    /\ rel = [p \in PinInputs |-> "no"]
    /\ GpioInit
    /\ RegIdle
    /\ FnIdle

PortNameNext ==
    \/ \E self \in PortNames : PortNameConvert("to_8_bit", self)
    \/ \E self \in PortNames : PortNameConvert("to_16_bit", self)

PortNameSpec == PortNameSpecInit /\ [][PortNameNext]_vars

\* C36: to_8_bit of 16-bit port n returns TwoPorts of the 8-bit ports 2n and
\* 2n + 1; to_16_bit of 8-bit port m returns HalfPort of 16-bit port m div 2
\* and the half Upper exactly when m is odd; each returns SinglePort of a
\* name that already has the size asked for.
C36_PortNameConversion ==
    port_last # NoCall
        => LET self == port_last.self
               ret == port_last.ret
           IN  /\ (port_last.fn = "to_8_bit" /\ self.size = Port16Bit)
                  => /\ ret.kind = "TwoPorts"
                     /\ ret.ports = <<PortName(2 * self.number, Port8Bit),
                                      PortName(2 * self.number + 1, Port8Bit)>>
               /\ (port_last.fn = "to_16_bit" /\ self.size = Port8Bit)
                  => /\ ret.kind = "HalfPort"
                     /\ ret.ports = <<PortName(self.number \div 2, Port16Bit)>>
                     /\ ret.half = "Upper" <=> self.number % 2 = 1
               /\ (port_last.fn = "to_8_bit" /\ self.size = Port8Bit)
                  => ret.kind = "SinglePort" /\ ret.ports = <<self>>
               /\ (port_last.fn = "to_16_bit" /\ self.size = Port16Bit)
                  => ret.kind = "SinglePort" /\ ret.ports = <<self>>

(***************************************************************************)
(* Conversions of the enum-typed pin names.                                *)
(***************************************************************************)

EnumPinTo8Bit(self) ==
    /\ \E ret \in to_8_bit(self) :
           enum_last' = [fn |-> "to_8_bit", self |-> self, ret |-> ret]
    /\ UNCHANGED notenum

EnumPinTo16Bit(self) ==
    /\ \E ret \in to_16_bit(self) :
           enum_last' = [fn |-> "to_16_bit", self |-> self, ret |-> ret]
    /\ UNCHANGED notenum

EnumPinSpecInit ==
    /\ package = "lqfp"
    /\ irq_enabled = TRUE
    /\ avail = PORT_PINS_AVAILABLE(package)
    /\ pins = [p \in PinInputs |-> 0]
    /\ ports = [p \in PortInputs |-> 0]
    /\ pinsets = [ps \in PinSetInputs |-> 0]
    /\ stack = <<>>
    /\ rel = [p \in PinInputs |-> "no"]
    /\ GpioInit
    /\ RegIdle
    /\ FnIdle

EnumPinNext ==
    \/ \E self \in PinNameConsts : EnumPinTo8Bit(self)
    \/ \E self \in PinNameConsts : EnumPinTo16Bit(self)

EnumPinSpec == EnumPinSpecInit /\ [][EnumPinNext]_vars

\* C37: to_8_bit of the 16-bit pin (n, o) yields 8-bit port 2n with offset o
\* when o < 8 and 8-bit port 2n + 1 with offset o - 8 otherwise; to_16_bit of
\* the 8-bit pin (m, o) yields 16-bit port m div 2 with offset o + 8 * (m mod
\* 2); every port value and offset produced is a declared variant.
C37_EnumPinConversion ==
    enum_last # NoCall
        => LET port == enum_last.self.port_name
               o == enum_last.self.pin_offset
               ret == enum_last.ret
           IN  /\ (enum_last.fn = "to_8_bit" /\ port.kind = "Port16")
                  => /\ ret.port_name = 2 * port.value + (IF o < 8 THEN 0 ELSE 1)
                     /\ ret.pin_offset = IF o < 8 THEN o ELSE o - 8
               /\ (enum_last.fn = "to_16_bit" /\ port.kind = "Port8")
                  => /\ ret.port_name = port.value \div 2
                     /\ ret.pin_offset = o + 8 * (port.value % 2)
               /\ ret.pin_offset \in PinOffset
               /\ enum_last.fn = "to_8_bit" => ret.port_name \in PortName8
               /\ enum_last.fn = "to_16_bit" => ret.port_name \in PortName16

(***************************************************************************)
(* The watchdog timer, call by call.                                       *)
(***************************************************************************)

\* WatchdogTimer::acquire: Some(timer) unless the watchdog is in use.
WdtAcquire ==
    /\ WDT_A_IN_USE' = TRUE
    /\ wdt_timer' = (wdt_timer \/ ~WDT_A_IN_USE)
    /\ wdt_last' = [fn |-> "acquire", read |-> WDTCTL, written |-> WDTCTL]
    /\ UNCHANGED <<WDTCTL, notwdt>>

\* WatchdogTimer::disable, on the timer acquired.
WdtDisable ==
    /\ wdt_timer
    /\ LET value == disable_value(wdt_read(WDTCTL))
       IN  /\ WDTCTL' = wdt_write(value)
           /\ wdt_last' = [fn |-> "disable", read |-> wdt_read(WDTCTL),
                           written |-> value]
    /\ UNCHANGED <<WDT_A_IN_USE, wdt_timer, notwdt>>

\* WatchdogTimer::enable, on the timer acquired.
WdtEnable ==
    /\ wdt_timer
    /\ LET value == enable_value(wdt_read(WDTCTL))
       IN  /\ WDTCTL' = wdt_write(value)
           /\ wdt_last' = [fn |-> "enable", read |-> wdt_read(WDTCTL),
                           written |-> value]
    /\ UNCHANGED <<WDT_A_IN_USE, wdt_timer, notwdt>>

\* Drop of the timer acquired.
WdtDrop ==
    /\ wdt_timer
    /\ WDT_A_IN_USE' = FALSE
    /\ wdt_timer' = FALSE
    /\ wdt_last' = [fn |-> "drop", read |-> WDTCTL, written |-> WDTCTL]
    /\ UNCHANGED <<WDTCTL, notwdt>>

WdtSpecInit ==
    /\ package = "lqfp"
    /\ irq_enabled = TRUE
    /\ avail = PORT_PINS_AVAILABLE(package)
    /\ pins = [p \in PinInputs |-> 0]
    /\ ports = [p \in PortInputs |-> 0]
    /\ pinsets = [ps \in PinSetInputs |-> 0]
    /\ stack = <<>>
    /\ rel = [p \in PinInputs |-> "no"]
    /\ GpioInit
    /\ RegIdle
    /\ pin_arg = PinName(PORTA, 0)
    /\ pin_prev = NoCall /\ pin_last = NoCall
    /\ alias_prev = NoCall /\ alias_last = NoCall
    /\ SelIdle
    /\ McuIdle
    /\ MaskIdle
    /\ InUseIdle
    /\ PortIdle
    /\ enum_last = NoCall
    /\ WDT_A_IN_USE = FALSE
    /\ wdt_timer = FALSE
    /\ WDTCTL \in {BitOr(WDTPW_READ, low) : low \in WdtLowBytes}
    /\ wdt_last = NoCall
    /\ RetryIdle
    /\ CsIdle

WdtNext ==
    \/ WdtAcquire
    \/ WdtDisable
    \/ WdtEnable
    \/ WdtDrop

WdtSpec == WdtSpecInit /\ [][WdtNext]_vars

\* C38: disable writes WDTCTL with the password 0x5A in the upper byte and
\* the hold bit set, enable writes the password and the hold bit cleared,
\* the remaining low bits of both are the ones read, and after enable the
\* watchdog is not held.
C38_WatchdogHold ==
    LET low == BitAnd(wdt_last.read, (WDTHOLD_MASK - 1))
    IN  /\ wdt_last.fn = "disable"
           => wdt_last.written = WDTPW_WRITE + WDTHOLD_MASK + low
        /\ wdt_last.fn = "enable"
           => /\ wdt_last.written = WDTPW_WRITE + low
              /\ BitAnd(WDTCTL, WDTHOLD_MASK) = 0

(***************************************************************************)
(* retry_if, iteration by iteration.                                       *)
(***************************************************************************)

\* retry_if is called.
RetryIfCall(num_tries, retry_result) ==
    /\ retry.ret # "running"
    /\ retry' = RetryCall(num_tries, retry_result)
    /\ retry_invoked' = 0
    /\ retry_other' = FALSE
    /\ UNCHANGED notretry

\* The loop of retry_if invokes the operation, which returns result.
RetryIfIterate(result) ==
    /\ retry.ret = "running"
    /\ retry' = retry_if(retry, result)
    /\ retry_invoked' = IF retry.num_tries = None THEN 0 ELSE retry_invoked + 1
    /\ retry_other' = (retry_other \/ result # retry.retry_result)
    /\ UNCHANGED notretry

RetrySpecInit ==
    /\ package = "lqfp"
    /\ irq_enabled = TRUE
    /\ avail = PORT_PINS_AVAILABLE(package)
    /\ pins = [p \in PinInputs |-> 0]
    /\ ports = [p \in PortInputs |-> 0]
    /\ pinsets = [ps \in PinSetInputs |-> 0]
    /\ stack = <<>>
    /\ rel = [p \in PinInputs |-> "no"]
    /\ GpioInit
    /\ RegIdle
    /\ FnIdle

RetryNext ==
    \/ \E num_tries \in NumTries, retry_result \in OperationResults :
           RetryIfCall(num_tries, retry_result)
    \/ \E result \in OperationResults : RetryIfIterate(result)

RetrySpec == RetrySpecInit /\ [][RetryNext]_vars

\* C39: with Some(n) retry_if invokes the operation at most n times, stops at
\* the first result that differs from retry_result and returns Ok of it, and
\* returns Err exactly when all n results equal retry_result; with None it
\* never returns Err and it has returned exactly when the operation has
\* yielded a different result.
C39_RetryIf ==
    /\ [](/\ retry.num_tries # None => retry_invoked <= retry.num_tries
          /\ retry.ret = "running" => ~retry_other
          /\ retry.ret = "Ok" => retry_other /\ retry.result # retry.retry_result
          /\ retry.ret = "Err"
             <=> /\ retry.num_tries # None
                 /\ retry_invoked = retry.num_tries
                 /\ ~retry_other
          /\ retry.num_tries = None
             => (retry.ret \in {"Ok", "Err"} <=> retry_other))
    /\ [][\A result \in OperationResults :
              RetryIfIterate(result)
                  => /\ retry'.ret = "Ok" <=> result # retry.retry_result
                     /\ retry'.ret = "Ok" => retry'.result = result]_vars

\* retry_if has returned Err after more than one try.
C39_AllTriesFailed ==
    /\ retry.ret = "Err"
    /\ retry.num_tries > 1
    /\ retry_invoked = retry.num_tries

(***************************************************************************)
(* Critical sections, nested ones included: cs_stack holds, for every      *)
(* closure running, the number of statements it has executed.              *)
(***************************************************************************)

\* single_proc_critical_section is called, by the program or by the closure
\* of the innermost section: interrupts are disabled and the closure starts.
CsEnter ==
    /\ Len(cs_stack) < MaxDepth
    /\ PRIMASK' = disable_interrupts
    /\ cs_stack' = Append(cs_stack, 0)
    /\ UNCHANGED <<isr_in_section, notcs>>

\* The closure of the innermost section executes a statement.
CsClosureStep ==
    /\ cs_stack # <<>>
    /\ cs_stack[Len(cs_stack)] < MaxSteps
    /\ cs_stack' = [cs_stack EXCEPT ![Len(cs_stack)] = @ + 1]
    /\ UNCHANGED <<PRIMASK, isr_in_section, notcs>>

\* The closure of the innermost section returns and the section ends with
\* enable_interrupts.
CsExit ==
    /\ cs_stack # <<>>
    /\ cs_stack' = SubSeq(cs_stack, 1, Len(cs_stack) - 1)
    /\ PRIMASK' = enable_interrupts
    /\ UNCHANGED <<isr_in_section, notcs>>

\* An interrupt is taken, which PRIMASK must allow.
CsInterrupt ==
    /\ ~PRIMASK
    /\ isr_in_section' = (cs_stack # <<>>)
    /\ UNCHANGED <<PRIMASK, cs_stack, notcs>>

CsSpecInit ==
    /\ package = "lqfp"
    /\ irq_enabled = TRUE
    /\ avail = PORT_PINS_AVAILABLE(package)
    /\ pins = [p \in PinInputs |-> 0]
    /\ ports = [p \in PortInputs |-> 0]
    /\ pinsets = [ps \in PinSetInputs |-> 0]
    /\ stack = <<>>
    /\ rel = [p \in PinInputs |-> "no"]
    /\ GpioInit
    /\ RegIdle
    /\ FnIdle

CsNext ==
    \/ CsEnter
    \/ CsClosureStep
    \/ CsExit
    \/ CsInterrupt

CsSpec == CsSpecInit /\ [][CsNext]_vars

\* C40: interrupts are disabled for as long as the closure of a critical
\* section runs, and are enabled again only when the section ends; in a
\* nested call the end of the inner section does not enable them while the
\* closure of the outer one is running.
C40_DisabledInSection ==
    /\ [](cs_stack # <<>> => PRIMASK)
    /\ [](isr_in_section = FALSE)
    /\ [][(PRIMASK /\ ~PRIMASK') => cs_stack' = <<>>]_vars

\* C32: a write of a push-pull section bus that nothing preempts leaves the
\* output bits of the section's pins equal to the low size bits of the value,
\* shifted to the section's offset; each of write, set_bits, clear_bits and
\* toggle_bits leaves the output bits of the pins outside the section as
\* they were; read returns the input bits of the section's pins, shifted
\* down by the offset.
C32_SectionFrame ==
    /\ [][(SectionStore /\ dev.written = <<>>)
          => LET size == PortSection4.size
                 offset == PortSection4.offset
                 bits == SectionBits(size, offset)
             IN  /\ Head(pending).op = "write"
                    => BitAnd(hw'["output"], bits)
                           = (Head(pending).arg % 2 ^ size) * 2 ^ offset
                 /\ BitAnd(hw'["output"], BitNot16(bits))
                        = BitAnd(hw["output"], BitNot16(bits))]_vars
    /\ [](dev.kind = "GpioSectionBus"
          => \A input \in RegInputs :
                 section_read(input, dev.mask, PortSection4.offset)
                     = BitAnd(input, SectionBits(PortSection4.size,
                                                 PortSection4.offset))
                           \div 2 ^ PortSection4.offset)

====
